---- MODULE Spec2Model ----
(***************************************************************************)
(* cdumay_http_client: the request executor (BaseClient::do_request), the  *)
(* client builders (HttpClient, RestClient), the typed decoder of          *)
(* RestClient and the error classifiers, as a state machine.               *)
(*                                                                         *)
(* Under Spec one behaviour constructs one client the way the callers do   *)
(* (new, then a chain of builder mutators), issues one call on it and      *)
(* follows the call's retry loop: every transport call and every sleep is  *)
(* one step.  SpecLive is Spec with the fairness of a blocking loop: a     *)
(* transport call that was started returns, a sleep that was started ends. *)
(* Under SpecBuilder a behaviour is new followed by any sequence of        *)
(* builder mutators.  Under SpecShared two callers run their calls side by *)
(* side on one client.  Under SpecFunctions a behaviour applies one of the *)
(* functions (classifiers, from_msgid, build_url, merge_headers,           *)
(* as_header, new) to arguments of its own.                                *)
(***************************************************************************)
EXTENDS Integers, Sequences, FiniteSets, TLC

\* ---------------------------------------------------------------- bounds

\* Largest attempt count handed to set_retry_number (0 is handed too).
MaxRetry == 2

\* ------------------------------------------------------ program constants

DefaultTimeout == 10

DefaultRetryNumber == 10

DefaultRetryDelay == 30

\* ------------------------------------------------------- option and values

None(d) == [some |-> FALSE, v |-> d]

Some(x) == [some |-> TRUE, v |-> x]

\* serde_value::Value, the two variants the executor stores.
ValueString(s) == [t |-> "String", s |-> s, n |-> 0]

ValueU64(n) == [t |-> "U64", s |-> "", n |-> n]

\* cdumay_context::Context: a map from keys to values.
ContextNew == <<>>

ContextInsert(ctx, k, v) ==
    [x \in (DOMAIN ctx) \cup {k} |-> IF x = k THEN v ELSE ctx[x]]

\* --------------------------------------------------------------- the kinds

ErrorType(code, msgid, message) ==
    [code |-> code, msgid |-> msgid, message |-> message]

\* The value standing for "from_status panicked": no ErrorType is returned.
NotAnError == ErrorType(0, "panic", "is not an error!")

HttpStatusCodeErrors ==
    [ INVALID_URL |-> ErrorType(400, "Err-27071", "Invalid url"),
      GENERIC_HTTP_CLIENT_ERROR |-> ErrorType(500, "Err-05192", "Generic HTTP client error"),
      MULTIPLE_CHOICES |-> ErrorType(300, "Err-11298", "Multiple Choices"),
      MOVED_PERMANENTLY |-> ErrorType(301, "Err-23108", "Moved Permanently"),
      FOUND |-> ErrorType(302, "Err-07132", "Found"),
      SEE_OTHER |-> ErrorType(303, "Err-16746", "See Other"),
      NOT_MODIFIED |-> ErrorType(304, "Err-21556", "Not Modified"),
      USE_PROXY |-> ErrorType(305, "Err-31839", "Use Proxy"),
      TEMPORARY_REDIRECT |-> ErrorType(307, "Err-25446", "Temporary Redirect"),
      PERMANENT_REDIRECT |-> ErrorType(308, "Err-12280", "Permanent Redirect"),
      BAD_REQUEST |-> ErrorType(400, "Err-26760", "Bad Request"),
      UNAUTHORIZED |-> ErrorType(401, "Err-08059", "Unauthorized"),
      PAYMENT_REQUIRED |-> ErrorType(402, "Err-18076", "Payment Required"),
      FORBIDDEN |-> ErrorType(403, "Err-23134", "Forbidden"),
      NOT_FOUND |-> ErrorType(404, "Err-18430", "Not Found"),
      METHOD_NOT_ALLOWED |-> ErrorType(405, "Err-23585", "Method Not Allowed"),
      NOT_ACCEPTABLE |-> ErrorType(406, "Err-04289", "Not Acceptable"),
      PROXY_AUTHENTICATION_REQUIRED |-> ErrorType(407, "Err-17336", "Proxy Authentication Required"),
      REQUEST_TIMEOUT |-> ErrorType(408, "Err-00565", "Request Timeout"),
      CONFLICT |-> ErrorType(409, "Err-08442", "Conflict"),
      GONE |-> ErrorType(410, "Err-19916", "Gone"),
      LENGTH_REQUIRED |-> ErrorType(411, "Err-09400", "Length Required"),
      PRECONDITION_FAILED |-> ErrorType(412, "Err-22509", "Precondition Failed"),
      PAYLOAD_TOO_LARGE |-> ErrorType(413, "Err-10591", "Payload Too Large"),
      URI_TOO_LONG |-> ErrorType(414, "Err-01377", "URI Too Long"),
      UNSUPPORTED_MEDIA_TYPE |-> ErrorType(415, "Err-12512", "Unsupported Media Type"),
      RANGE_NOT_SATISFIABLE |-> ErrorType(416, "Err-21696", "Range Not Satisfiable"),
      EXPECTATION_FAILED |-> ErrorType(417, "Err-16872", "Expectation Failed"),
      IM_A_TEAPOT |-> ErrorType(418, "Err-23719", "I'm a teapot"),
      MISDIRECTED_REQUEST |-> ErrorType(421, "Err-26981", "Misdirected Request"),
      UNPROCESSABLE_ENTITY |-> ErrorType(422, "Err-12568", "Unprocessable Entity"),
      LOCKED |-> ErrorType(423, "Err-32695", "Locked"),
      FAILED_DEPENDENCY |-> ErrorType(424, "Err-19693", "Failed Dependency"),
      UPGRADE_REQUIRED |-> ErrorType(426, "Err-22991", "Upgrade Required"),
      PRECONDITION_REQUIRED |-> ErrorType(428, "Err-02452", "Precondition Required"),
      TOO_MANY_REQUESTS |-> ErrorType(429, "Err-12176", "Too Many Requests"),
      REQUEST_HEADER_FIELDS_TOO_LARGE |-> ErrorType(431, "Err-07756", "Request Header Fields Too Large"),
      UNAVAILABLE_FOR_LEGAL_REASONS |-> ErrorType(451, "Err-12136", "Unavailable For Legal Reasons"),
      INTERNAL_SERVER_ERROR |-> ErrorType(500, "Err-09069", "Internal Server Error"),
      NOT_IMPLEMENTED |-> ErrorType(501, "Err-03394", "Not Implemented"),
      BAD_GATEWAY |-> ErrorType(502, "Err-19734", "Bad Gateway"),
      SERVICE_UNAVAILABLE |-> ErrorType(503, "Err-18979", "Service Unavailable"),
      GATEWAY_TIMEOUT |-> ErrorType(504, "Err-17595", "Gateway Timeout"),
      HTTP_VERSION_NOT_SUPPORTED |-> ErrorType(505, "Err-01625", "HTTP Version Not Supported"),
      VARIANT_ALSO_NEGOTIATES |-> ErrorType(506, "Err-28382", "Variant Also Negotiates"),
      INSUFFICIENT_STORAGE |-> ErrorType(507, "Err-32132", "Insufficient Storage"),
      LOOP_DETECTED |-> ErrorType(508, "Err-30770", "Loop Detected"),
      NOT_EXTENDED |-> ErrorType(510, "Err-19347", "Not Extended"),
      NETWORK_AUTHENTICATION_REQUIRED |-> ErrorType(511, "Err-31948", "Network Authentication Required") ]

from_status(status) ==
    CASE status = 301 -> HttpStatusCodeErrors.MOVED_PERMANENTLY
      [] status = 302 -> HttpStatusCodeErrors.FOUND
      [] status = 303 -> HttpStatusCodeErrors.SEE_OTHER
      [] status = 304 -> HttpStatusCodeErrors.NOT_MODIFIED
      [] status = 305 -> HttpStatusCodeErrors.USE_PROXY
      [] status = 307 -> HttpStatusCodeErrors.TEMPORARY_REDIRECT
      [] status = 308 -> HttpStatusCodeErrors.PERMANENT_REDIRECT
      [] status = 400 -> HttpStatusCodeErrors.BAD_REQUEST
      [] status = 401 -> HttpStatusCodeErrors.UNAUTHORIZED
      [] status = 402 -> HttpStatusCodeErrors.PAYMENT_REQUIRED
      [] status = 403 -> HttpStatusCodeErrors.FORBIDDEN
      [] status = 404 -> HttpStatusCodeErrors.NOT_FOUND
      [] status = 405 -> HttpStatusCodeErrors.METHOD_NOT_ALLOWED
      [] status = 406 -> HttpStatusCodeErrors.NOT_ACCEPTABLE
      [] status = 407 -> HttpStatusCodeErrors.PROXY_AUTHENTICATION_REQUIRED
      [] status = 408 -> HttpStatusCodeErrors.REQUEST_TIMEOUT
      [] status = 409 -> HttpStatusCodeErrors.CONFLICT
      [] status = 410 -> HttpStatusCodeErrors.GONE
      [] status = 411 -> HttpStatusCodeErrors.LENGTH_REQUIRED
      [] status = 412 -> HttpStatusCodeErrors.PRECONDITION_FAILED
      [] status = 413 -> HttpStatusCodeErrors.PAYLOAD_TOO_LARGE
      [] status = 414 -> HttpStatusCodeErrors.URI_TOO_LONG
      [] status = 415 -> HttpStatusCodeErrors.UNSUPPORTED_MEDIA_TYPE
      [] status = 416 -> HttpStatusCodeErrors.RANGE_NOT_SATISFIABLE
      [] status = 417 -> HttpStatusCodeErrors.EXPECTATION_FAILED
      [] status = 418 -> HttpStatusCodeErrors.IM_A_TEAPOT
      [] status = 421 -> HttpStatusCodeErrors.MISDIRECTED_REQUEST
      [] status = 422 -> HttpStatusCodeErrors.UNPROCESSABLE_ENTITY
      [] status = 423 -> HttpStatusCodeErrors.LOCKED
      [] status = 424 -> HttpStatusCodeErrors.FAILED_DEPENDENCY
      [] status = 426 -> HttpStatusCodeErrors.UPGRADE_REQUIRED
      [] status = 428 -> HttpStatusCodeErrors.PRECONDITION_REQUIRED
      [] status = 429 -> HttpStatusCodeErrors.TOO_MANY_REQUESTS
      [] status = 431 -> HttpStatusCodeErrors.REQUEST_HEADER_FIELDS_TOO_LARGE
      [] status = 451 -> HttpStatusCodeErrors.UNAVAILABLE_FOR_LEGAL_REASONS
      [] status = 500 -> HttpStatusCodeErrors.INTERNAL_SERVER_ERROR
      [] status = 501 -> HttpStatusCodeErrors.NOT_IMPLEMENTED
      [] status = 502 -> HttpStatusCodeErrors.BAD_GATEWAY
      [] status = 503 -> HttpStatusCodeErrors.SERVICE_UNAVAILABLE
      [] status = 504 -> HttpStatusCodeErrors.GATEWAY_TIMEOUT
      [] status = 505 -> HttpStatusCodeErrors.HTTP_VERSION_NOT_SUPPORTED
      [] status = 506 -> HttpStatusCodeErrors.VARIANT_ALSO_NEGOTIATES
      [] status = 507 -> HttpStatusCodeErrors.INSUFFICIENT_STORAGE
      [] status = 508 -> HttpStatusCodeErrors.LOOP_DETECTED
      [] status = 510 -> HttpStatusCodeErrors.NOT_EXTENDED
      [] status = 511 -> HttpStatusCodeErrors.NETWORK_AUTHENTICATION_REQUIRED
      [] OTHER -> NotAnError

\* errors/client.rs, define_kinds!
ClientKinds ==
    [ UNKNOWN_ERROR |-> ErrorType(500, "Err-79483", "Unexpected error"),
      INVALID_URL |-> ErrorType(400, "Err-27071", "Invalid url"),
      GENERIC_HTTP_CLIENT_ERROR |-> ErrorType(500, "Err-05192", "Generic HTTP client error"),
      CONTENT_ERROR |-> ErrorType(400, "Err-45973", "The error is related to the request or response body"),
      NETWORK_CONNECTION |-> ErrorType(500, "Err-64752", "The error is related to connect"),
      REQUEST_ERROR |-> ErrorType(500, "Err-37984", "The error is related to the request") ]

\* errors/client.rs, define_errors!: the kind of each error type.
ClientErrors ==
    [ InvalidUrl |-> ClientKinds.INVALID_URL,
      ClientBuilderError |-> ClientKinds.GENERIC_HTTP_CLIENT_ERROR,
      InvalidContent |-> ClientKinds.CONTENT_ERROR,
      NetworkError |-> ClientKinds.NETWORK_CONNECTION,
      RequestError |-> ClientKinds.REQUEST_ERROR,
      UnexpectedError |-> ClientKinds.UNKNOWN_ERROR,
      InvalidHeaderValue |-> ClientKinds.CONTENT_ERROR ]

\* errors/rest.rs, define_kinds!
JsonKinds ==
    [ IOError |-> ErrorType(500, "JSON-11553", "IO Error"),
      SyntaxError |-> ErrorType(400, "JSON-57633", "Syntax Error"),
      DataError |-> ErrorType(400, "JSON-15852", "Invalid JSON data"),
      EOF |-> ErrorType(500, "JSON-15853", "Reached the end of the input data") ]

\* errors/rest.rs, define_errors!
JsonErrors ==
    [ JsonIOError |-> JsonKinds.IOError,
      JsonSyntaxError |-> JsonKinds.SyntaxError,
      JsonDataError |-> JsonKinds.DataError,
      JsonEOF |-> JsonKinds.EOF ]

\* cdumay_error::Error: kind, message, details.  new() of an error type has
\* the kind's message and no details; set_message and set_details replace.
Error(kind, message, details) ==
    [kind |-> kind, message |-> message, details |-> details]

\* StatusCode::is_success
is_success(status) == 200 <= status /\ status <= 299

\* ---------------------------------------------------------- the classifiers

\* reqwest::Error as the classifier reads it: status() (0: none) and the
\* is_* predicates; display is to_string().
ReqwestError(status, builder, body, decode, connect, timeout, request, display) ==
    [status |-> status, is_builder |-> builder, is_body |-> body,
     is_decode |-> decode, is_connect |-> connect, is_timeout |-> timeout,
     is_request |-> request, display |-> display]

\* The outcome of classifying: an Error, or the panic of from_status.
Classified(err) == [panic |-> FALSE, err |-> err]

Panicked == [panic |-> TRUE, err |-> Error(NotAnError, "", None(ContextNew))]

\* errors/mod.rs calls http::from_status(status, text, context): the kind
\* is from_status's, the text the message, the context the details.
http_from_status(status, text, context) ==
    IF from_status(status) = NotAnError
    THEN Panicked
    ELSE Classified(Error(from_status(status), text, Some(context)))

OptionContext(context) == IF context.some THEN context.v ELSE ContextNew

http_resp_serialise(status, text, context) ==
    http_from_status(status, text, OptionContext(context))

\* http_error_serialize with the connect and timeout check ahead of the
\* builder and body checks.
http_error_serialize_connect_first(error, context) ==
    IF error.status # 0
    THEN http_from_status(error.status, error.display, OptionContext(context))
    ELSE IF error.is_connect \/ error.is_timeout
    THEN Classified(Error(ClientErrors.NetworkError, error.display,
                          Some(OptionContext(context))))
    ELSE IF error.is_builder
    THEN Classified(Error(ClientErrors.ClientBuilderError, error.display,
                          Some(OptionContext(context))))
    ELSE IF error.is_body \/ error.is_decode
    THEN Classified(Error(ClientErrors.InvalidContent, error.display,
                          Some(OptionContext(context))))
    ELSE Classified(Error(ClientErrors.UnexpectedError, error.display,
                          Some(OptionContext(context))))

http_error_serialize(error, context) ==
    IF error.status # 0
    THEN http_from_status(error.status, error.display, OptionContext(context))
    ELSE IF error.is_builder
    THEN Classified(Error(ClientErrors.ClientBuilderError, error.display,
                          Some(OptionContext(context))))
    ELSE IF error.is_body \/ error.is_decode
    THEN Classified(Error(ClientErrors.InvalidContent, error.display,
                          Some(OptionContext(context))))
    ELSE IF error.is_connect \/ error.is_timeout
    THEN Classified(Error(ClientErrors.NetworkError, error.display,
                          Some(OptionContext(context))))
    ELSE IF error.is_request
    THEN Classified(Error(ClientErrors.NetworkError, error.display,
                          Some(OptionContext(context))))
    ELSE Classified(Error(ClientErrors.UnexpectedError, error.display,
                          Some(OptionContext(context))))

\* json_error_serialize answering JsonDataError to every category.
json_error_serialize_data_only(category, display, context) ==
    Error(JsonErrors.JsonDataError, display, Some(OptionContext(context)))

\* serde_json::Error::classify() is one of "Io", "Syntax", "Data", "Eof".
json_error_serialize(category, display, context) ==
    Error(CASE category = "Io" -> JsonErrors.JsonIOError
            [] category = "Syntax" -> JsonErrors.JsonSyntaxError
            [] category = "Data" -> JsonErrors.JsonDataError
            [] category = "Eof" -> JsonErrors.JsonEOF,
          display, Some(OptionContext(context)))

\* ------------------------------------------------------------ URL, headers

\* reqwest::Url: the part before the path, whether the URL cannot be a base,
\* the path segments and the query pairs.
Url(base, cannot_be_a_base, path, query) ==
    [base |-> base, cannot_be_a_base |-> cannot_be_a_base,
     path |-> path, query |-> query]

NoUrl == Url("", FALSE, <<>>, <<>>)

RECURSIVE Join(_, _)
Join(parts, sep) ==
    IF parts = <<>> THEN ""
    ELSE IF Len(parts) = 1 THEN Head(parts)
    ELSE Head(parts) \o sep \o Join(Tail(parts), sep)

RECURSIVE QueryString(_)
QueryString(pairs) ==
    IF pairs = <<>> THEN ""
    ELSE Head(pairs)[1] \o "=" \o Head(pairs)[2]
         \o (IF Len(pairs) = 1 THEN "" ELSE "&" \o QueryString(Tail(pairs)))

\* Url::to_string
UrlToString(url) ==
    url.base
    \o (IF url.cannot_be_a_base THEN "" ELSE "/" \o Join(url.path, "/"))
    \o (IF url.query = <<>> THEN "" ELSE "?" \o QueryString(url.query))

\* str::trim_end_matches("/") on a text given as its pieces.
RECURSIVE trim_end_matches(_)
trim_end_matches(text) ==
    IF text # <<>> /\ text[Len(text)] = "/"
    THEN trim_end_matches(SubSeq(text, 1, Len(text) - 1))
    ELSE text

\* split("/") with the empty parts kept: one part per piece, "" for a "/".
SplitNonEmpty_unfiltered(text) ==
    [i \in 1..Len(text) |-> IF text[i] = "/" THEN "" ELSE text[i]]

\* str::split("/").filter(|part| part.len() != 0) on a text given as its
\* pieces, "/" being a piece of its own.
RECURSIVE SplitNonEmpty(_)
SplitNonEmpty(text) ==
    IF text = <<>> THEN <<>>
    ELSE IF Head(text) = "/" THEN SplitNonEmpty(Tail(text))
    ELSE <<Head(text)>> \o SplitNonEmpty(Tail(text))

\* The path segments Url::parse reads from the pieces after the host: one
\* after each "/", empty when another "/" or nothing follows it.
RECURSIVE PathSegments(_)
PathSegments(text) ==
    IF text = <<>> THEN <<>>
    ELSE IF Head(text) # "/" THEN <<Head(text)>> \o PathSegments(Tail(text))
    ELSE IF Len(text) >= 2 /\ text[2] # "/"
    THEN <<text[2]>> \o PathSegments(SubSeq(text, 3, Len(text)))
    ELSE <<"">> \o PathSegments(Tail(text))

\* Url::parse on the texts the model hands it: an absolute hierarchical URL,
\* a URL that cannot be a base, and a text that is no URL.
UrlParse(text) ==
    IF text = <<>> \/ Head(text) = "not a url"
    THEN None(NoUrl)
    ELSE IF Head(text) = "mailto:ops"
    THEN Some(Url(Head(text), TRUE, <<>>, <<>>))
    ELSE Some(Url(Head(text), FALSE, PathSegments(Tail(text)), <<>>))

\* The order of String keys, by the rank of the keys the model uses.
KeyRank(k) ==
    CASE k = "limit" -> 1
      [] k = "page" -> 2
      [] k = "sort" -> 3
      [] OTHER -> 4

\* sort_by_key on the entries of the map, in whatever order iter() gave them.
RECURSIVE InsertSorted(_, _)
InsertSorted(sorted, e) ==
    IF sorted = <<>> THEN <<e>>
    ELSE IF KeyRank(e[1]) < KeyRank(Head(sorted)[1]) THEN <<e>> \o sorted
    ELSE <<Head(sorted)>> \o InsertSorted(Tail(sorted), e)

\* sort_by_key leaving the entries in the order iter() gave them.
sort_by_key_unsorted(entries) == entries

RECURSIVE sort_by_key(_)
sort_by_key(entries) ==
    IF entries = <<>> THEN <<>>
    ELSE InsertSorted(sort_by_key(SubSeq(entries, 1, Len(entries) - 1)),
                      entries[Len(entries)])

\* build_url extending the path of any root.
build_url_unchecked(root, path, params) ==
    [ok |-> TRUE,
     url |-> Url(root.base, FALSE, root.path \o SplitNonEmpty(path),
                 root.query \o (IF params.some THEN sort_by_key(params.v) ELSE <<>>)),
     err |-> Error(NotAnError, "", None(ContextNew))]

\* utils.rs build_url: Err(InvalidUrl, message only) or Ok(url).
build_url(root, path, params) ==
    IF root.cannot_be_a_base
    THEN [ok |-> FALSE, url |-> NoUrl,
          err |-> Error(ClientErrors.InvalidUrl, "Cannot build url", None(ContextNew))]
    ELSE [ok |-> TRUE,
          url |-> Url(root.base, FALSE, root.path \o SplitNonEmpty(path),
                      root.query \o (IF params.some THEN sort_by_key(params.v) ELSE <<>>)),
          err |-> Error(NotAnError, "", None(ContextNew))]

\* HeaderMap::extend for maps holding one value per name.
HeaderExtend(h1, h2) ==
    [n \in (DOMAIN h1) \cup (DOMAIN h2) |-> IF n \in DOMAIN h2 THEN h2[n] ELSE h1[n]]

\* merge_headers with the base winning on collision.
merge_headers_base_wins(h1, h2) ==
    IF h2.some THEN HeaderExtend(h2.v, h1) ELSE h1

\* utils.rs merge_headers
merge_headers(h1, h2) ==
    IF h2.some THEN HeaderExtend(h1, h2.v) ELSE h1

\* ------------------------------------------------------------ authentication

\* Box<dyn Authentication>: "NoAuth", "BasicAuth" or a custom implementation
\* whose as_header returns None.
Auth(scheme, username, password) ==
    [scheme |-> scheme, username |-> username, password |-> password]

NoAuthSet == Auth("", "", None(""))

\* base64's standard encoding, kept symbolic.
BASE64_STANDARD_encode(s) == "base64(" \o s \o ")"

\* as_header of BasicAuth giving no header when there is no password.
as_header_password_only(auth) ==
    IF auth.scheme = "BasicAuth" /\ auth.password.some
    THEN Some(<<"authorization",
                "Basic " \o BASE64_STANDARD_encode(
                    auth.username \o ":" \o auth.password.v)>>)
    ELSE None(<<"", "">>)

\* Authentication::as_header
as_header(auth) ==
    IF auth.scheme = "BasicAuth"
    THEN Some(<<"authorization",
                "Basic " \o BASE64_STANDARD_encode(
                    IF auth.password.some
                    THEN auth.username \o ":" \o auth.password.v
                    ELSE auth.username \o ":")>>)
    ELSE None(<<"", "">>)

\* ------------------------------------------------------------------ inputs

\* The url_root texts handed to new, as pieces ("/" a piece of its own).
Roots ==
    { <<"https://api.example.com", "/">>,
      <<"mailto:ops">>,
      <<"not a url">> }

\* The path texts handed to a call.
Paths == { <<"/", "users", "/", "/", "search", "/">> }

\* Query parameters: the entries of the HashMap in the order iter() yields.
ParamSets ==
    { None(<<>>), Some(<< <<"page", "1">>, <<"limit", "10">> >>) }

HeaderSets == { [accept |-> "text/plain"] }

TimeoutSet == { 5 }

RetryDelaySet == { 1 }

AuthSet ==
    { Auth("NoAuth", "", None("")),
      Auth("BasicAuth", "john.doe", None("")),
      Auth("BasicAuth", "john.doe", Some("secret123")),
      Auth("Custom", "", None("")) }

Apis == { "get", "post", "put", "delete", "head" }

\* no_retry_on: Option<Vec<ErrorKind>>, the vector as the set of its kinds.
NoRetrySets ==
    { None({}),
      Some({HttpStatusCodeErrors.UNPROCESSABLE_ENTITY}),
      Some({HttpStatusCodeErrors.NOT_FOUND, HttpStatusCodeErrors.FORBIDDEN}) }

\* context: Option<Context> of the caller: none, or one with a field of the
\* caller's and the keys url and method.
ContextSets ==
    { None(ContextNew),
      Some([request_id |-> ValueString("r-1"),
            url |-> ValueString("caller-url"),
            method |-> ValueString("caller-method")]) }

\* Bodies a 2xx response carries; serde_json::from_str::<R> on each.
Bodies == { "valid_R", "valid_not_R", "not_json" }

\* What the transport collaborator answers to one attempt.
Outcome(tag, error, status, body, text_ok) ==
    [tag |-> tag, error |-> error, status |-> status, body |-> body,
     text_ok |-> text_ok]

NoReqwestError == ReqwestError(0, FALSE, FALSE, FALSE, FALSE, FALSE, FALSE, "")

BuilderError == ReqwestError(0, TRUE, FALSE, FALSE, FALSE, FALSE, FALSE, "builder error")

DecodeError == ReqwestError(0, FALSE, FALSE, TRUE, FALSE, FALSE, FALSE, "error decoding response body")

\* Errors of RequestBuilder::send: building the request, connecting, timing
\* out, decoding, following a redirect.
SendErrors ==
    { BuilderError, DecodeError,
      ReqwestError(0, FALSE, FALSE, FALSE, TRUE, FALSE, TRUE, "error trying to connect"),
      ReqwestError(0, FALSE, FALSE, FALSE, FALSE, TRUE, TRUE, "operation timed out"),
      ReqwestError(0, FALSE, FALSE, FALSE, FALSE, FALSE, FALSE, "error following redirect") }

\* Statuses of the responses: a success, one from_status has no arm for,
\* and two it maps.
FailureStatuses == { 300, 404, 422 }

Outcomes ==
    { Outcome("no_clone", NoReqwestError, 0, "", TRUE) }
    \cup { Outcome("error", e, 0, "", TRUE) : e \in SendErrors }
    \cup { Outcome("response", NoReqwestError, 200, b, TRUE) : b \in Bodies }
    \cup { Outcome("response", DecodeError, 200, "", FALSE) }
    \cup { Outcome("response", NoReqwestError, s, "error page", TRUE) : s \in FailureStatuses }

\* ------------------------------------------------------------------- state

VARIABLES
    phase,            \* "unbuilt", "ready", "failed" (new returned Err), "panicked"
    client,           \* the HttpClient or RestClient being built and used
    pc,               \* of the call: "idle", "send", "sleep", "done"
    call,             \* the call in progress: its arguments and built request
    req_try,          \* the loop variable of do_request
    last_error,       \* Option<Error>, the accumulator of do_request
    returned,         \* what do_request returned
    result,           \* what new or the call (get, post, put, delete, head) returned
    transport_calls,  \* req.send() calls issued by the call
    sleeps,           \* thread::sleep calls made by the call
    failures,         \* responses with a non-success status received
    statuses,         \* the statuses of the responses received
    last_outcome,     \* what the transport answered to the latest attempt
    requests_sent,    \* the requests handed to the transport by the call
    calls,            \* the callers sharing the client, each with the locals of its call
    fn,               \* the function applied on its own, "none" before
    input,            \* the arguments it was applied to
    output            \* what it returned

vars ==
    <<phase, client, pc, call, req_try, last_error, returned, result,
      transport_calls, sleeps, failures, statuses, last_outcome,
      requests_sent, calls, fn, input, output>>

NoError == Error(NotAnError, "", None(ContextNew))

Result(tag, text, err) == [tag |-> tag, text |-> text, err |-> err]

NoResult == Result("None", "", NoError)

Ok(text) == Result("Ok", text, NoError)

Err(err) == Result("Err", "", err)

Panic == Result("Panic", "", NoError)

FromClassified(c) == IF c.panic THEN Panic ELSE Err(c.err)

Client(rest, url_root, timeout, headers, auth, ssl_verify, retry_number, retry_delay) ==
    [rest |-> rest, url_root |-> url_root, timeout |-> timeout,
     headers |-> headers, auth |-> auth, ssl_verify |-> ssl_verify,
     retry_number |-> retry_number, retry_delay |-> retry_delay]

NoClient == Client(FALSE, NoUrl, 0, <<>>, None(NoAuthSet), FALSE, 0, 0)

\* The request with the settings of the transport client that sends it:
\* timeout, default headers, whether invalid certificates are accepted.
Request(method, url, timeout, headers, accept_invalid_certs, auth_header, body) ==
    [method |-> method, url |-> url, timeout |-> timeout, headers |-> headers,
     accept_invalid_certs |-> accept_invalid_certs,
     auth_header |-> auth_header, body |-> body]

NoRequest == Request("", NoUrl, 0, <<>>, FALSE, None(<<"", "">>), None(""))

\* The arguments of the call (data, headers and timeout as the caller gave
\* them), the context do_request made of the caller's, and the request.
CallRecord(api, path, data, headers, timeout, no_retry_on, caller_context, context, req) ==
    [api |-> api, path |-> path, data |-> data, headers |-> headers,
     timeout |-> timeout, no_retry_on |-> no_retry_on,
     caller_context |-> caller_context, context |-> context, req |-> req]

NoCall ==
    CallRecord("", <<>>, None(""), None(<<>>), None(0), None({}), None(ContextNew),
               ContextNew, NoRequest)

\* The callers making a call each, side by side, on one client.
CallIds == { "caller_1", "caller_2" }

\* The locals of one do_request call: where it is, its arguments and request,
\* req_try, last_error, what it returned, and the transport calls and sleeps
\* it has made.
Locals(at, c, try, last, ret, sent, slept) ==
    [pc |-> at, call |-> c, req_try |-> try, last_error |-> last,
     returned |-> ret, transport_calls |-> sent, sleeps |-> slept]

NoLocals == Locals("idle", NoCall, 0, None(NoError), NoResult, 0, 0)

\* The arguments a caller handed do_request.
Asked(api, path, no_retry_on, context) ==
    [api |-> api, path |-> path, no_retry_on |-> no_retry_on, context |-> context]

NoAsked == Asked("", <<>>, None({}), None(ContextNew))

\* One caller: the locals of its call, what it asked, and the answers the
\* transport gave to its attempts.
Caller(locals, asked, answers) ==
    [locals |-> locals, asked |-> asked, answers |-> answers]

Init ==
    /\ phase = "unbuilt"
    /\ client = NoClient
    /\ pc = "idle"
    /\ call = NoCall
    /\ req_try = 0
    /\ last_error = None(NoError)
    /\ returned = NoResult
    /\ result = NoResult
    /\ transport_calls = 0
    /\ sleeps = 0
    /\ failures = 0
    /\ statuses = {}
    /\ last_outcome = Outcome("none", NoReqwestError, 0, "", TRUE)
    /\ requests_sent = {}
    /\ calls = [i \in CallIds |-> Caller(NoLocals, NoAsked, <<>>)]
    /\ fn = "none"
    /\ input = <<>>
    /\ output = <<>>

\* ------------------------------------------------------------ the builders

UserAgent == "cdumay_http_client/version"

\* The default headers of HttpClient::new and RestClient::new.
DefaultHeaders(rest) ==
    IF rest
    THEN [n \in {"user-agent", "content-type", "accept"} |->
            IF n = "user-agent" THEN UserAgent ELSE "application/json"]
    ELSE [n \in {"user-agent"} |-> UserAgent]

\* new parsing url_root as it is given.
new_untrimmed(rest, url_root) ==
    LET parsed == UrlParse(url_root)
    IN  IF parsed.some
        THEN [ok |-> TRUE,
              client |-> Client(rest, parsed.v, DefaultTimeout, DefaultHeaders(rest),
                                None(NoAuthSet), TRUE, DefaultRetryNumber,
                                DefaultRetryDelay),
              err |-> NoError]
        ELSE [ok |-> FALSE, client |-> NoClient,
              err |-> Error(ClientErrors.InvalidUrl, "Failed to parse URL",
                            Some(ContextInsert(ContextNew, "url",
                                               ValueString(Join(url_root, "")))))]

\* ClientBuilder::new (context: None).
new(rest, url_root) ==
    LET parsed == UrlParse(trim_end_matches(url_root))
    IN  IF parsed.some
        THEN [ok |-> TRUE,
              client |-> Client(rest, parsed.v, DefaultTimeout, DefaultHeaders(rest),
                                None(NoAuthSet), TRUE, DefaultRetryNumber,
                                DefaultRetryDelay),
              err |-> NoError]
        ELSE [ok |-> FALSE, client |-> NoClient,
              err |-> Error(ClientErrors.InvalidUrl, "Failed to parse URL",
                            Some(ContextInsert(ContextNew, "url",
                                               ValueString(Join(url_root, "")))))]

\* What a builder call leaves: a client ("ready"), or none after a panic.
Built(state, cl) == [phase |-> state, client |-> cl]

set_timeout(self, timeout) == Built("ready", [self EXCEPT !.timeout = timeout])

\* set_headers putting the headers given in the place of the client's.
set_headers_replacing(self, headers) ==
    Built("ready", [self EXCEPT !.headers = headers])

set_headers(self, headers) ==
    Built("ready", [self EXCEPT !.headers = HeaderExtend(self.headers, headers)])

set_auth(self, auth) == Built("ready", [self EXCEPT !.auth = Some(auth)])

set_ssl_verify(self, ssl_verify) ==
    Built("ready", [self EXCEPT !.ssl_verify = ssl_verify])

\* set_retry_number without the check of 0.
set_retry_number_unchecked(self, retry_number) ==
    Built("ready", [self EXCEPT !.retry_number = retry_number])

\* HttpClient::set_retry_number and RestClient::set_retry_number: the panic
\* consumes the client.
set_retry_number(self, retry_number) ==
    IF retry_number = 0
    THEN Built("panicked", NoClient)
    ELSE Built("ready", [self EXCEPT !.retry_number = retry_number])

set_retry_delay(self, retry_delay) ==
    Built("ready", [self EXCEPT !.retry_delay = retry_delay])

\* The frame of the construction steps: no call is in progress.
CallUntouched ==
    UNCHANGED <<pc, call, req_try, last_error, returned, transport_calls,
                sleeps, failures, statuses, last_outcome, requests_sent,
                calls, fn, input, output>>

New(rest, url_root) ==
    /\ phase = "unbuilt"
    /\ phase' = IF new(rest, url_root).ok THEN "ready" ELSE "failed"
    /\ client' = new(rest, url_root).client
    /\ result' = IF new(rest, url_root).ok THEN result ELSE Err(new(rest, url_root).err)
    /\ CallUntouched

\* One builder mutator applied to the client.
Mutate(built) ==
    /\ phase = "ready"
    /\ pc = "idle"
    /\ phase' = built.phase
    /\ client' = built.client
    /\ UNCHANGED result
    /\ CallUntouched

SetTimeout(timeout) == Mutate(set_timeout(client, timeout))

SetHeaders(headers) == Mutate(set_headers(client, headers))

SetAuth(auth) == Mutate(set_auth(client, auth))

SetSslVerify(ssl_verify) == Mutate(set_ssl_verify(client, ssl_verify))

SetRetryNumber(retry_number) == Mutate(set_retry_number(client, retry_number))

SetRetryDelay(retry_delay) == Mutate(set_retry_delay(client, retry_delay))

\* A chain of builder calls as the callers write it: the mutators given, in
\* the order new(..).set_timeout(..).set_headers(..).set_auth(..)
\* .set_ssl_verify(..).set_retry_number(..).set_retry_delay(..).
Setup(timeout, headers, auth, ssl_verify, retry_number, retry_delay) ==
    [timeout |-> timeout, headers |-> headers, auth |-> auth,
     ssl_verify |-> ssl_verify, retry_number |-> retry_number,
     retry_delay |-> retry_delay]

Setups ==
    { Setup(None(0), None(<<>>), None(NoAuthSet), None(TRUE), None(0), None(0)) }
    \cup { Setup(None(0), None(<<>>), None(NoAuthSet), None(TRUE), Some(n), Some(d)) :
             n \in 0..MaxRetry, d \in RetryDelaySet }
    \cup { Setup(Some(t), Some(h), Some(a), Some(FALSE), Some(1), None(0)) :
             t \in TimeoutSet, h \in HeaderSets, a \in AuthSet }

\* Applies the next mutator only while a client is left.
Then(built, given, next) ==
    IF built.phase = "ready" /\ given THEN next ELSE built

apply_setup(cl, s) ==
    LET b1 == Then(Built("ready", cl), s.timeout.some, set_timeout(cl, s.timeout.v))
        b2 == Then(b1, s.headers.some, set_headers(b1.client, s.headers.v))
        b3 == Then(b2, s.auth.some, set_auth(b2.client, s.auth.v))
        b4 == Then(b3, s.ssl_verify.some, set_ssl_verify(b3.client, s.ssl_verify.v))
        b5 == Then(b4, s.retry_number.some, set_retry_number(b4.client, s.retry_number.v))
    IN  Then(b5, s.retry_delay.some, set_retry_delay(b5.client, s.retry_delay.v))

\* new and the chain of mutators, as one construction.
Construct(rest, url_root, setup) ==
    /\ phase = "unbuilt"
    /\ IF new(rest, url_root).ok
       THEN /\ phase' = apply_setup(new(rest, url_root).client, setup).phase
            /\ client' = apply_setup(new(rest, url_root).client, setup).client
            /\ UNCHANGED result
       ELSE /\ phase' = "failed"
            /\ client' = NoClient
            /\ result' = Err(new(rest, url_root).err)
    /\ CallUntouched

\* ------------------------------------------------------------ the executor

MethodOf(api) ==
    CASE api = "get" -> "GET"
      [] api = "post" -> "POST"
      [] api = "put" -> "PUT"
      [] api = "delete" -> "DELETE"
      [] api = "head" -> "HEAD"

\* RestClient::create_context
create_context(url_root, path, method) ==
    [k \in {"server", "path", "method"} |->
        CASE k = "server" -> ValueString(UrlToString(url_root))
          [] k = "path" -> ValueString(Join(path, ""))
          [] k = "method" -> ValueString(method)]

\* rest_context made of server, path and method whatever the caller gave.
rest_context_local(caller_context, url_root, path, method) ==
    Some(create_context(url_root, path, method))

\* The context RestClient hands json_error_serialize.
rest_context(caller_context, url_root, path, method) ==
    Some(IF caller_context.some THEN caller_context.v
         ELSE create_context(url_root, path, method))

\* serde_json::to_string on the payloads D of the model: "d_bad" does not
\* serialize.
serde_to_string(data) ==
    IF data = "d_bad"
    THEN [ok |-> FALSE, text |-> "", category |-> "Data"]
    ELSE [ok |-> TRUE, text |-> "json(" \o data \o ")", category |-> ""]

\* serde_json::from_str::<R> on the bodies of the model.
serde_from_str(text) ==
    CASE text = "valid_R" -> [ok |-> TRUE, category |-> ""]
      [] text = "not_json" -> [ok |-> FALSE, category |-> "Syntax"]
      [] text = "truncated" -> [ok |-> FALSE, category |-> "Eof"]
      [] OTHER -> [ok |-> FALSE, category |-> "Data"]

\* seed_context keeping the url and method of the caller's context.
seed_context_caller_wins(context, url, method) ==
    LET own == [k \in {"url", "method"} |->
                   IF k = "url" THEN ValueString(UrlToString(url))
                   ELSE ValueString(method)]
    IN  [k \in (DOMAIN OptionContext(context)) \cup {"url", "method"} |->
            IF k \in DOMAIN OptionContext(context)
            THEN OptionContext(context)[k] ELSE own[k]]

\* seed_context without the method.
seed_context_url_only(context, url, method) ==
    ContextInsert(OptionContext(context), "url", ValueString(UrlToString(url)))

\* The context of do_request: the caller's, then url and method inserted.
seed_context(context, url, method) ==
    ContextInsert(ContextInsert(OptionContext(context), "url",
                                ValueString(UrlToString(url))),
                  "method", ValueString(method))

\* err_context holding the first attempt whatever the attempt is.
err_context_first_attempt(context, try) ==
    ContextInsert(context, "try", ValueU64(1))

\* err_context counting the attempts from 0.
err_context_zero_based(context, try) ==
    ContextInsert(context, "try", ValueU64(try - 1))

\* The context of an error built from a non-success response.
err_context(context, try) == ContextInsert(context, "try", ValueU64(try))

\* is_exempt looking at the exemption list on the first attempt only.
is_exempt_first_only(no_retry_on, err) ==
    /\ no_retry_on.some
    /\ err.kind \in no_retry_on.v
    /\ "try" \in DOMAIN err.details.v
    /\ err.details.v["try"] = ValueU64(1)

\* is_exempt with the exemption list ignored.
is_exempt_off(no_retry_on, err) == FALSE

\* kinds.contains(&err.kind) under Some(kinds)
is_exempt(no_retry_on, err) == no_retry_on.some /\ err.kind \in no_retry_on.v

\* resp.text().unwrap_or_default()
text_or_default(o) == IF o.text_ok THEN o.body ELSE ""

\* loop_exit taking the branch of no error recorded whatever was recorded.
loop_exit_unrecorded(last, context) ==
    Err(Error(ClientErrors.ClientBuilderError,
              "Internal error, failed to clone request", Some(context)))

\* What do_request returns once the loop is over.
loop_exit(last, context) ==
    IF last.some
    THEN Err(last.v)
    ELSE Err(Error(ClientErrors.ClientBuilderError,
                   "Internal error, failed to clone request", Some(context)))

\* finish_ok without the decoding of RestClient.
finish_ok_undecoded(c, cl, text) ==
    IF c.api = "head" THEN Ok("") ELSE Ok(text)

\* What the caller gets for the text do_request returned: HttpClient returns
\* it, head drops it, RestClient decodes it.
finish_ok(c, cl, text) ==
    IF c.api = "head" THEN Ok("")
    ELSE IF ~cl.rest THEN Ok(text)
    ELSE IF serde_from_str(text).ok THEN Ok(text)
    ELSE Err(json_error_serialize(
                 serde_from_str(text).category, "json error",
                 rest_context(c.caller_context, cl.url_root, c.path, c.req.method)))

\* What get, post, put, delete and head make of do_request's result: an
\* error (or the panic) goes up unchanged.
api_finish(c, cl, r) == IF r.tag = "Ok" THEN finish_ok(c, cl, r.text) ELSE r

\* attempt_next with the loop going on after a response of an exempt kind.
attempt_next_retries_exempt(o, panics, exempt) ==
    CASE o.tag = "no_clone" -> "return"
      [] o.tag = "error" -> "return"
      [] is_success(o.status) -> "return"
      [] panics -> "panic"
      [] OTHER -> "sleep"

\* attempt_next with a send error kept and retried like a failed response.
attempt_next_retries_errors(o, panics, exempt) ==
    CASE o.tag = "no_clone" -> "return"
      [] o.tag = "error" -> "sleep"
      [] is_success(o.status) -> "return"
      [] panics -> "panic"
      [] exempt -> "return"
      [] OTHER -> "sleep"

\* attempt_next with the loop going on when the request cannot be cloned.
attempt_next_skips_clone_failure(o, panics, exempt) ==
    CASE o.tag = "no_clone" -> "sleep"
      [] o.tag = "error" -> "return"
      [] is_success(o.status) -> "return"
      [] panics -> "panic"
      [] exempt -> "return"
      [] OTHER -> "sleep"

\* attempt_next with the loop going on after a 2xx response.
attempt_next_ignores_success(o, panics, exempt) ==
    CASE o.tag = "no_clone" -> "return"
      [] o.tag = "error" -> "return"
      [] is_success(o.status) -> "sleep"
      [] panics -> "panic"
      [] exempt -> "return"
      [] OTHER -> "sleep"

\* Where one iteration of the loop goes on the transport's answer:
\* "return", "panic", or "sleep" (the error is kept and the loop goes on).
attempt_next(o, panics, exempt) ==
    CASE o.tag = "no_clone" -> "return"
      [] o.tag = "error" -> "return"
      [] is_success(o.status) -> "return"
      [] panics -> "panic"
      [] exempt -> "return"
      [] OTHER -> "sleep"

\* Whether the loop runs another iteration after the sleep of iteration try.
loop_continues(try, retry_number) == try < retry_number

\* _request_wrapper's error: the context is None.
request_wrapper_error(error) == http_error_serialize(error, None(ContextNew))

\* What one iteration returns when it returns.
attempt_return(o, cls, c) ==
    CASE o.tag = "no_clone" ->
            Err(Error(ClientErrors.ClientBuilderError,
                      "Internal error, failed to clone request", Some(c.context)))
      [] o.tag = "error" -> FromClassified(request_wrapper_error(o.error))
      [] is_success(o.status) /\ o.text_ok -> Ok(o.body)
      [] is_success(o.status) /\ ~o.text_ok ->
            FromClassified(http_error_serialize(o.error, Some(c.context)))
      [] OTHER -> FromClassified(cls)

\* accept_invalid_certs following the flag of the client.
accept_invalid_certs_from_flag(cl) == ~cl.ssl_verify

\* Client::builder() is given the timeout and the default headers and
\* nothing of self.ssl_verify(): certificates are verified, as reqwest does
\* when not told otherwise.
accept_invalid_certs(cl) == FALSE

\* effective_timeout with the override ignored.
effective_timeout_configured(timeout, configured) == configured

\* timeout.unwrap_or(self.timeout().clone())
effective_timeout(timeout, configured) ==
    IF timeout.some THEN timeout.v ELSE configured

\* auth_header attaching nothing.
auth_header_unattached(auth) == None(<<"", "">>)

\* The header do_request adds to the request for self.auth(): the one
\* as_header yields, if there is an authentication and it yields one.
auth_header(auth) ==
    IF auth.some THEN as_header(auth.v) ELSE None(<<"", "">>)

\* do_request up to the loop: build_url, the context, the transport client
\* (cli_ok: whether Client::builder().build() succeeds) and the request.
do_request_start(cl, api, path, params, body, headers, timeout, no_retry_on, context, cli_ok) ==
    LET method == MethodOf(api)
        built == build_url(cl.url_root, path, params)
        ctx == seed_context(context, built.url, method)
        req == Request(method, built.url,
                       effective_timeout(timeout, cl.timeout),
                       merge_headers(cl.headers, headers),
                       accept_invalid_certs(cl),
                       auth_header(cl.auth),
                       body)
    IN  IF ~built.ok
        THEN [pc |-> "done", returned |-> Err(built.err),
              call |-> CallRecord(api, path, body, headers, timeout, no_retry_on, context,
                                 ContextNew, NoRequest)]
        ELSE IF ~cli_ok
        THEN [pc |-> "done",
              returned |-> FromClassified(http_error_serialize(BuilderError, Some(ctx))),
              call |-> CallRecord(api, path, body, headers, timeout, no_retry_on, context,
                                 ctx, NoRequest)]
        ELSE IF cl.retry_number >= 1
        THEN [pc |-> "send", returned |-> NoResult,
              call |-> CallRecord(api, path, body, headers, timeout, no_retry_on, context,
                                 ctx, req)]
        ELSE [pc |-> "done", returned |-> loop_exit(None(NoError), ctx),
              call |-> CallRecord(api, path, body, headers, timeout, no_retry_on, context,
                                 ctx, req)]

\* api_start handing the data to do_request as it is, for RestClient too.
api_start_unserialized(cl, api, path, params, data, headers, timeout, no_retry_on, context, cli_ok) ==
    LET s == do_request_start(cl, api, path, params, data, headers, timeout,
                              no_retry_on, context, cli_ok)
    IN  [pc |-> s.pc, returned |-> s.returned,
         result |-> api_finish(s.call, cl, s.returned), call |-> s.call]

\* HttpClient::get/post/put/delete, BaseClient::head: the data is the body.
\* RestClient::get/post/put/delete: the data is serialized first.
api_start(cl, api, path, params, data, headers, timeout, no_retry_on, context, cli_ok) ==
    IF cl.rest /\ data.some /\ ~serde_to_string(data.v).ok
    THEN [pc |-> "done", returned |-> NoResult,
          result |-> Err(json_error_serialize(
                         serde_to_string(data.v).category, "json error",
                         rest_context(context, cl.url_root, path, MethodOf(api)))),
          call |-> CallRecord(api, path, data, headers, timeout, no_retry_on, context,
                             ContextNew, NoRequest)]
    ELSE LET s == do_request_start(
                      cl, api, path, params,
                      IF cl.rest /\ data.some
                      THEN Some(serde_to_string(data.v).text) ELSE data,
                      headers, timeout, no_retry_on, context, cli_ok)
         IN  [pc |-> s.pc, returned |-> s.returned,
              result |-> api_finish(s.call, cl, s.returned),
              call |-> [s.call EXCEPT !.data = data]]

DataSets == { None(""), Some("d_ok"), Some("d_bad") }

Call(api, path, params, data, headers, timeout, no_retry_on, context, cli_ok) ==
    /\ phase = "ready"
    /\ pc = "idle"
    /\ data.some => api \in {"post", "put"}
    /\ LET s == api_start(client, api, path, params, data, headers, timeout,
                          no_retry_on, context, cli_ok)
       IN  /\ pc' = s.pc
           /\ returned' = s.returned
           /\ result' = s.result
           /\ call' = s.call
    /\ req_try' = 1
    /\ UNCHANGED <<phase, client, last_error,
                   transport_calls, sleeps, failures, statuses, last_outcome,
                   requests_sent>>
    /\ UNCHANGED <<calls, fn, input, output>>

\* try_clone leaving the authentication header out of the copy.
try_clone_without_auth(req) == [req EXCEPT !.auth_header = None(<<"", "">>)]

\* RequestBuilder::try_clone when it gives a request: a copy of req.
try_clone(req) == req

\* One iteration of the loop up to its sleep: try_clone, send, and what the
\* answer leads to.
Send(o) ==
    /\ pc = "send"
    /\ LET cls == http_resp_serialise(o.status, text_or_default(o),
                                      Some(err_context(call.context, req_try)))
           nxt == attempt_next(o, cls.panic, ~cls.panic /\ is_exempt(call.no_retry_on, cls.err))
       IN  /\ pc' = IF nxt = "sleep" THEN "sleep" ELSE "done"
           /\ last_error' = IF nxt = "sleep" THEN Some(cls.err) ELSE last_error
           /\ returned' = CASE nxt = "sleep" -> returned
                            [] nxt = "panic" -> Panic
                            [] OTHER -> attempt_return(o, cls, call)
           /\ result' = api_finish(call, client, returned')
    /\ transport_calls' = IF o.tag = "no_clone" THEN transport_calls
                          ELSE transport_calls + 1
    /\ failures' = IF o.tag = "response" /\ ~is_success(o.status)
                   THEN failures + 1 ELSE failures
    /\ statuses' = IF o.tag = "response" THEN statuses \cup {o.status} ELSE statuses
    /\ last_outcome' = o
    /\ requests_sent' = IF o.tag = "no_clone" THEN requests_sent
                        ELSE requests_sent \cup {try_clone(call.req)}
    /\ UNCHANGED <<phase, client, call, req_try, sleeps>>
    /\ UNCHANGED <<calls, fn, input, output>>

\* thread::sleep(retry_delay), then the next iteration or the end of the loop.
Sleep ==
    /\ pc = "sleep"
    /\ sleeps' = sleeps + 1
    /\ IF loop_continues(req_try, client.retry_number)
       THEN /\ pc' = "send"
            /\ req_try' = req_try + 1
            /\ UNCHANGED <<returned, result>>
       ELSE /\ pc' = "done"
            /\ returned' = loop_exit(last_error, call.context)
            /\ result' = api_finish(call, client, returned')
            /\ UNCHANGED req_try
    /\ UNCHANGED <<phase, client, call, last_error,
                   transport_calls, failures, statuses, last_outcome, requests_sent>>
    /\ UNCHANGED <<calls, fn, input, output>>

\* The optional arguments of a call that only shape the request: query
\* parameters, header overrides, timeout override.
RequestArgs ==
    { [params |-> None(<<>>), headers |-> None(<<>>), timeout |-> None(0)] }
    \cup { [params |-> p, headers |-> Some(h), timeout |-> Some(t)] :
             p \in ParamSets, h \in HeaderSets, t \in TimeoutSet }

Next ==
    \/ \E rest \in BOOLEAN, url_root \in Roots, setup \in Setups :
          Construct(rest, url_root, setup)
    \/ \E api \in Apis, path \in Paths, args \in RequestArgs, data \in DataSets,
          no_retry_on \in NoRetrySets, context \in ContextSets,
          cli_ok \in BOOLEAN :
            Call(api, path, args.params, data, args.headers, args.timeout,
                 no_retry_on, context, cli_ok)
    \/ \E o \in Outcomes : Send(o)
    \/ Sleep

Spec == Init /\ [][Next]_vars

\* The transport answers every attempt (req.send() returns) and every
\* thread::sleep returns.
SpecLive ==
    /\ Init
    /\ [][Next]_vars
    /\ WF_vars(\E o \in Outcomes : Send(o))
    /\ WF_vars(Sleep)

\* The HeaderMaps handed to set_headers on its own: one of a new name, one
\* of user-agent.
BuilderHeaderSets ==
    HeaderSets \cup { [n \in {"user-agent"} |-> "custom-agent/1.0"] }

NextBuilder ==
    \/ \E rest \in BOOLEAN, url_root \in Roots : New(rest, url_root)
    \/ \E timeout \in TimeoutSet : SetTimeout(timeout)
    \/ \E headers \in BuilderHeaderSets : SetHeaders(headers)
    \/ \E auth \in AuthSet : SetAuth(auth)
    \/ \E ssl_verify \in BOOLEAN : SetSslVerify(ssl_verify)
    \/ \E retry_number \in 0..MaxRetry : SetRetryNumber(retry_number)
    \/ \E retry_delay \in RetryDelaySet : SetRetryDelay(retry_delay)

SpecBuilder == Init /\ [][NextBuilder]_vars

\* ------------------------------------------- calls side by side on a client

\* do_request(&self, ..) keeps its state in locals (url, context, cli, req,
\* last_error, req_try) and reads the client through &self; thread::sleep
\* blocks the calling thread only.  Callers sharing one client each run
\* do_request on their own locals, their steps interleaved.

\* The locals a step would work on were they kept in one place for all
\* callers.
own_shared(cs, i) == cs["caller_1"].locals

\* The locals a caller's step works on.
own(cs, i) == cs[i].locals

\* do_request up to the loop, on the locals of the call.
start_locals(cl, api, path, no_retry_on, context) ==
    LET s == do_request_start(cl, api, path, None(<<>>), None(""), None(<<>>),
                              None(0), no_retry_on, context, TRUE)
    IN  Locals(s.pc, s.call, 1, None(NoError), s.returned, 0, 0)

\* One iteration of the loop up to its sleep, on the locals of the call.
send_locals(cl, loc, o) ==
    LET cls == http_resp_serialise(o.status, text_or_default(o),
                                   Some(err_context(loc.call.context, loc.req_try)))
        nxt == attempt_next(o, cls.panic,
                            ~cls.panic /\ is_exempt(loc.call.no_retry_on, cls.err))
    IN  [loc EXCEPT
            !.pc = IF nxt = "sleep" THEN "sleep" ELSE "done",
            !.last_error = IF nxt = "sleep" THEN Some(cls.err) ELSE @,
            !.returned = CASE nxt = "sleep" -> @
                           [] nxt = "panic" -> Panic
                           [] OTHER -> attempt_return(o, cls, loc.call),
            !.transport_calls = IF o.tag = "no_clone" THEN @ ELSE @ + 1]

\* thread::sleep, then the next iteration or the end of the loop, on the
\* locals of the call.
sleep_locals(cl, loc) ==
    IF loop_continues(loc.req_try, cl.retry_number)
    THEN [loc EXCEPT !.pc = "send", !.req_try = @ + 1, !.sleeps = @ + 1]
    ELSE [loc EXCEPT !.pc = "done", !.sleeps = @ + 1,
                     !.returned = loop_exit(loc.last_error, loc.call.context)]

\* do_request run by one caller alone, from the locals loc, against the
\* answers given.
RECURSIVE run_alone(_, _, _)
run_alone(cl, loc, answers) ==
    IF loc.pc = "sleep"
    THEN run_alone(cl, sleep_locals(cl, loc), answers)
    ELSE IF loc.pc = "send" /\ answers # <<>>
    THEN run_alone(cl, send_locals(cl, loc, Head(answers)), Tail(answers))
    ELSE loc

\* The builder chains of the shared client.
SharedSetups ==
    { Setup(None(0), None(<<>>), None(NoAuthSet), v, Some(n), Some(d)) :
        v \in { None(TRUE), Some(FALSE) }, n \in 1..MaxRetry, d \in RetryDelaySet }

\* What the transport answers to the attempts of the callers.
SharedOutcomes ==
    { Outcome("error", ReqwestError(0, FALSE, FALSE, FALSE, TRUE, FALSE, TRUE,
                                    "error trying to connect"), 0, "", TRUE),
      Outcome("response", NoReqwestError, 200, "valid_R", TRUE),
      Outcome("response", NoReqwestError, 404, "error page", TRUE),
      Outcome("response", NoReqwestError, 422, "error page", TRUE) }

\* The frame of the steps of the callers.
SharedFrame ==
    UNCHANGED <<phase, client, pc, call, req_try, last_error, returned, result,
                transport_calls, sleeps, failures, statuses, last_outcome,
                requests_sent, fn, input, output>>

SharedCall(i, api, path, no_retry_on, context) ==
    /\ phase = "ready"
    /\ own(calls, i).pc = "idle"
    /\ calls' = [calls EXCEPT
                    ![i] = Caller(start_locals(client, api, path, no_retry_on, context),
                                  Asked(api, path, no_retry_on, context), <<>>)]
    /\ SharedFrame

SharedSend(i, o) ==
    /\ own(calls, i).pc = "send"
    /\ calls' = [calls EXCEPT
                    ![i] = Caller(send_locals(client, own(calls, i), o),
                                  @.asked, Append(@.answers, o))]
    /\ SharedFrame

SharedSleep(i) ==
    /\ own(calls, i).pc = "sleep"
    /\ calls' = [calls EXCEPT
                    ![i] = Caller(sleep_locals(client, own(calls, i)),
                                  @.asked, @.answers)]
    /\ SharedFrame

NextShared ==
    \/ \E url_root \in Roots, setup \in SharedSetups :
          Construct(FALSE, url_root, setup)
    \/ \E i \in CallIds, path \in Paths, no_retry_on \in NoRetrySets,
          context \in ContextSets :
            SharedCall(i, "get", path, no_retry_on, context)
    \/ \E i \in CallIds, o \in SharedOutcomes : SharedSend(i, o)
    \/ \E i \in CallIds : SharedSleep(i)

SpecShared == Init /\ [][NextShared]_vars

\* ------------------------------------------------ the functions on their own

\* The status of a reqwest::Error: none (0), or the 4xx or 5xx status
\* error_for_status made it from.
ErrorStatuses == { 0, 404, 503 }

\* reqwest::Error values handed to http_error_serialize: every combination
\* of the is_* predicates.
ClassifierErrors ==
    { ReqwestError(s, b, y, d, c, t, r, "transport error") :
        s \in ErrorStatuses, b \in BOOLEAN, y \in BOOLEAN, d \in BOOLEAN,
        c \in BOOLEAN, t \in BOOLEAN, r \in BOOLEAN }

\* StatusCode values handed to from_status.
StatusCodes == 100..599

\* serde_json::Error::classify()
JsonCategories == { "Io", "Syntax", "Data", "Eof" }

\* last_error at the end of the loop: none, or the error of a response.
LastErrors ==
    { None(NoError),
      Some(Error(HttpStatusCodeErrors.NOT_FOUND, "error page",
                 Some([try |-> ValueU64(1)]))) }

\* HeaderMap values handed to merge_headers.
HeaderNames == { "accept", "content-type" }

HeaderValues == { "application/json", "text/plain" }

HeaderMaps == UNION { [names -> HeaderValues] : names \in SUBSET HeaderNames }

\* The entries of a params HashMap, in every order iter() can yield them.
ParamPairs == { <<"page", "1">>, <<"limit", "10">>, <<"sort", "asc">> }

ParamOrders ==
    { q \in UNION { [1..n -> ParamPairs] : n \in 0..Cardinality(ParamPairs) } :
        \A i \in DOMAIN q, j \in DOMAIN q : q[i] = q[j] => i = j }

\* Root URLs handed to build_url: those new parses, and one that has a path
\* and a query of its own.
UrlRoots ==
    { UrlParse(trim_end_matches(r)).v : r \in { x \in Roots : UrlParse(trim_end_matches(x)).some } }
    \cup { Url("https://api.example.com", FALSE, <<"v1">>, << <<"token", "t">> >>) }

UrlPaths == Paths \cup { <<>>, <<"users">> }

\* Registry::default(), the kind a registry gives for a msgid it does not
\* know.  cdumay_error defines it; here it is a kind apart from every
\* constant of HttpStatusCodeErrors.
RegistryDefault == ErrorType(500, "Err-default", "Registry::default()")

\* A registry without any arm: every msgid gets the default.
from_msgid_unregistered(msgid) == RegistryDefault

\* Registry::from_msgid of HttpStatusCodeErrors, arm by arm.
from_msgid(msgid) ==
    CASE msgid = "Err-27071" -> HttpStatusCodeErrors.INVALID_URL
      [] msgid = "Err-05192" -> HttpStatusCodeErrors.GENERIC_HTTP_CLIENT_ERROR
      [] msgid = "Err-00565" -> HttpStatusCodeErrors.REQUEST_TIMEOUT
      [] msgid = "Err-01377" -> HttpStatusCodeErrors.URI_TOO_LONG
      [] msgid = "Err-01625" -> HttpStatusCodeErrors.HTTP_VERSION_NOT_SUPPORTED
      [] msgid = "Err-02452" -> HttpStatusCodeErrors.PRECONDITION_REQUIRED
      [] msgid = "Err-03394" -> HttpStatusCodeErrors.NOT_IMPLEMENTED
      [] msgid = "Err-04289" -> HttpStatusCodeErrors.NOT_ACCEPTABLE
      [] msgid = "Err-07132" -> HttpStatusCodeErrors.FOUND
      [] msgid = "Err-07756" -> HttpStatusCodeErrors.REQUEST_HEADER_FIELDS_TOO_LARGE
      [] msgid = "Err-08059" -> HttpStatusCodeErrors.UNAUTHORIZED
      [] msgid = "Err-08442" -> HttpStatusCodeErrors.CONFLICT
      [] msgid = "Err-09069" -> HttpStatusCodeErrors.INTERNAL_SERVER_ERROR
      [] msgid = "Err-09400" -> HttpStatusCodeErrors.LENGTH_REQUIRED
      [] msgid = "Err-10591" -> HttpStatusCodeErrors.PAYLOAD_TOO_LARGE
      [] msgid = "Err-11298" -> HttpStatusCodeErrors.MULTIPLE_CHOICES
      [] msgid = "Err-12136" -> HttpStatusCodeErrors.UNAVAILABLE_FOR_LEGAL_REASONS
      [] msgid = "Err-12176" -> HttpStatusCodeErrors.TOO_MANY_REQUESTS
      [] msgid = "Err-12280" -> HttpStatusCodeErrors.PERMANENT_REDIRECT
      [] msgid = "Err-12512" -> HttpStatusCodeErrors.UNSUPPORTED_MEDIA_TYPE
      [] msgid = "Err-12568" -> HttpStatusCodeErrors.UNPROCESSABLE_ENTITY
      [] msgid = "Err-16746" -> HttpStatusCodeErrors.SEE_OTHER
      [] msgid = "Err-16872" -> HttpStatusCodeErrors.EXPECTATION_FAILED
      [] msgid = "Err-17336" -> HttpStatusCodeErrors.PROXY_AUTHENTICATION_REQUIRED
      [] msgid = "Err-17595" -> HttpStatusCodeErrors.GATEWAY_TIMEOUT
      [] msgid = "Err-18076" -> HttpStatusCodeErrors.PAYMENT_REQUIRED
      [] msgid = "Err-18430" -> HttpStatusCodeErrors.NOT_FOUND
      [] msgid = "Err-18979" -> HttpStatusCodeErrors.SERVICE_UNAVAILABLE
      [] msgid = "Err-19347" -> HttpStatusCodeErrors.NOT_EXTENDED
      [] msgid = "Err-19693" -> HttpStatusCodeErrors.FAILED_DEPENDENCY
      [] msgid = "Err-19734" -> HttpStatusCodeErrors.BAD_GATEWAY
      [] msgid = "Err-19916" -> HttpStatusCodeErrors.GONE
      [] msgid = "Err-21556" -> HttpStatusCodeErrors.NOT_MODIFIED
      [] msgid = "Err-21696" -> HttpStatusCodeErrors.RANGE_NOT_SATISFIABLE
      [] msgid = "Err-22509" -> HttpStatusCodeErrors.PRECONDITION_FAILED
      [] msgid = "Err-22991" -> HttpStatusCodeErrors.UPGRADE_REQUIRED
      [] msgid = "Err-23108" -> HttpStatusCodeErrors.MOVED_PERMANENTLY
      [] msgid = "Err-23134" -> HttpStatusCodeErrors.FORBIDDEN
      [] msgid = "Err-23585" -> HttpStatusCodeErrors.METHOD_NOT_ALLOWED
      [] msgid = "Err-23719" -> HttpStatusCodeErrors.IM_A_TEAPOT
      [] msgid = "Err-25446" -> HttpStatusCodeErrors.TEMPORARY_REDIRECT
      [] msgid = "Err-26760" -> HttpStatusCodeErrors.BAD_REQUEST
      [] msgid = "Err-26981" -> HttpStatusCodeErrors.MISDIRECTED_REQUEST
      [] msgid = "Err-28382" -> HttpStatusCodeErrors.VARIANT_ALSO_NEGOTIATES
      [] msgid = "Err-30770" -> HttpStatusCodeErrors.LOOP_DETECTED
      [] msgid = "Err-31839" -> HttpStatusCodeErrors.USE_PROXY
      [] msgid = "Err-31948" -> HttpStatusCodeErrors.NETWORK_AUTHENTICATION_REQUIRED
      [] msgid = "Err-32132" -> HttpStatusCodeErrors.INSUFFICIENT_STORAGE
      [] msgid = "Err-32695" -> HttpStatusCodeErrors.LOCKED
      [] OTHER -> RegistryDefault

\* The msgids handed to from_msgid: those of the constants, two that no
\* constant has and the empty text.
MsgIds ==
    { HttpStatusCodeErrors[k].msgid : k \in DOMAIN HttpStatusCodeErrors }
    \cup { "Err-00000", "Err-27072", "" }

\* One function applied to arguments, outside of any call.
Apply(f, in, res) ==
    /\ phase = "unbuilt"
    /\ fn = "none"
    /\ fn' = f
    /\ input' = in
    /\ output' = res
    /\ UNCHANGED <<phase, client, pc, call, req_try, last_error, returned,
                   result, transport_calls, sleeps, failures, statuses,
                   last_outcome, requests_sent, calls>>

HttpErrorSerialize(error, context) ==
    Apply("http_error_serialize", [error |-> error, context |-> context],
          http_error_serialize(error, context))

FromStatus(status) ==
    Apply("from_status", [status |-> status], from_status(status))

JsonErrorSerialize(category, context) ==
    Apply("json_error_serialize", [category |-> category, context |-> context],
          json_error_serialize(category, "json error", context))

LoopExit(last, context) ==
    Apply("loop_exit", [last |-> last, context |-> context],
          loop_exit(last, context))

MergeHeaders(h1, h2) ==
    Apply("merge_headers", [h1 |-> h1, h2 |-> h2], merge_headers(h1, h2))

BuildUrl(root, path, params) ==
    Apply("build_url", [root |-> root, path |-> path, params |-> params],
          build_url(root, path, params))

\* The url_root texts handed to new on its own: those of Roots, one with no
\* slash to trim and one with a path and two.
RootTexts ==
    Roots \cup { <<"https://api.example.com">>,
                 <<"https://api.example.com", "/", "v1", "/", "/">> }

NewClient(rest, url_root) ==
    Apply("new", [rest |-> rest, url_root |-> url_root], new(rest, url_root))

AsHeader(auth) == Apply("as_header", [auth |-> auth], as_header(auth))

FromMsgid(msgid) ==
    Apply("from_msgid", [msgid |-> msgid], from_msgid(msgid))

NextFunctions ==
    \/ \E error \in ClassifierErrors, context \in ContextSets :
          HttpErrorSerialize(error, context)
    \/ \E status \in StatusCodes : FromStatus(status)
    \/ \E category \in JsonCategories, context \in ContextSets :
          JsonErrorSerialize(category, context)
    \/ \E last \in LastErrors, context \in ContextSets :
          LoopExit(last, OptionContext(context))
    \/ \E h1 \in HeaderMaps, h2 \in { None(<<>>) } \cup { Some(h) : h \in HeaderMaps } :
          MergeHeaders(h1, h2)
    \/ \E root \in UrlRoots, path \in UrlPaths,
          params \in { None(<<>>) } \cup { Some(q) : q \in ParamOrders } :
          BuildUrl(root, path, params)
    \/ \E auth \in AuthSet : AsHeader(auth)
    \/ \E rest \in BOOLEAN, url_root \in RootTexts : NewClient(rest, url_root)
    \/ \E msgid \in MsgIds : FromMsgid(msgid)

SpecFunctions == Init /\ [][NextFunctions]_vars

\* ---------------------------------------------------------------- properties

\* C1 (as the specification states it): with no retry-exempt kinds, a call
\* whose every transport call was answered by a non-success status has
\* issued exactly retry_number transport calls when it is over, and returns
\* Err with the error classified from the last of them: the kind of that
\* status, and the details of attempt retry_number.
C1_RetryBound ==
    (/\ pc = "done"
     /\ ~call.no_retry_on.some
     /\ last_outcome.tag = "response"
     /\ transport_calls >= 1
     /\ failures = transport_calls)
    => /\ transport_calls = client.retry_number
       /\ returned.tag = "Err"
       /\ returned.err.kind.code = last_outcome.status
       /\ returned.err.details = Some(err_context(call.context, client.retry_number))

\* C2: once a non-success response classifies to a kind listed in
\* no_retry_on, do_request is over and has returned that error: the transport
\* calls are those of the attempts made so far and no sleep follows, so that
\* an exempt kind on the first response leaves exactly one transport call and
\* no sleep, whatever retry_number is.
C2_ExemptionShortCircuits ==
    (/\ last_outcome.tag = "response"
     /\ ~is_success(last_outcome.status)
     /\ call.no_retry_on.some
     /\ from_status(last_outcome.status) \in call.no_retry_on.v)
    => /\ pc = "done"
       /\ returned.tag = "Err"
       /\ returned.err.kind = from_status(last_outcome.status)
       /\ transport_calls = req_try
       /\ sleeps = req_try - 1
       /\ (failures = 1 => transport_calls = 1 /\ sleeps = 0)

\* An exempt kind on the first response of a client left with the default 10
\* attempts.
C2_Witness ==
    /\ pc = "done"
    /\ client.retry_number = DefaultRetryNumber
    /\ call.no_retry_on.some
    /\ returned.tag = "Err"
    /\ returned.err.kind \in call.no_retry_on.v
    /\ transport_calls = 1
    /\ sleeps = 0

\* C3: an Err of the send at attempt k is classified and returned at once:
\* the call is over with k transport calls, the k-1 sleeps that separated the
\* attempts and none after the failure, whatever is left of retry_number.
C3_TransportFailureReturns ==
    last_outcome.tag = "error"
    => /\ pc = "done"
       /\ returned.tag = "Err"
       /\ returned.err.message = last_outcome.error.display
       /\ (last_outcome.error.is_builder
              => returned.err.kind = ClientErrors.ClientBuilderError)
       /\ (last_outcome.error.is_decode
              => returned.err.kind = ClientErrors.InvalidContent)
       /\ (last_outcome.error.is_connect \/ last_outcome.error.is_timeout
              => returned.err.kind = ClientErrors.NetworkError)
       /\ result = returned
       /\ transport_calls = req_try
       /\ req_try <= client.retry_number
       /\ sleeps = req_try - 1

\* A connect failure at the second of 10 attempts.
C3_Witness ==
    /\ pc = "done"
    /\ last_outcome.tag = "error"
    /\ last_outcome.error.is_connect
    /\ req_try = 2
    /\ client.retry_number = DefaultRetryNumber
    /\ returned.tag = "Err"

\* C4 (as the specification states it): when attempt k is answered by a 2xx
\* status after k-1 failed attempts, do_request has issued exactly k
\* transport calls and returns Ok with the body text of attempt k.
C4_SuccessStopsLoop ==
    (last_outcome.tag = "response" /\ is_success(last_outcome.status))
    => /\ pc = "done"
       /\ transport_calls = req_try
       /\ failures = req_try - 1
       /\ returned = Ok(last_outcome.body)

\* C4 (amended): when attempt k is answered by a 2xx status after k-1 failed
\* attempts, do_request has issued exactly k transport calls and is over; it
\* returns Ok with the body text of attempt k when the body is read, and Err
\* of kind InvalidContent with the url and method as details when reading
\* the body fails; the error kept from the earlier attempts is not returned.
C4_SuccessStopsLoopAmended ==
    (last_outcome.tag = "response" /\ is_success(last_outcome.status))
    => /\ pc = "done"
       /\ transport_calls = req_try
       /\ failures = req_try - 1
       /\ (last_outcome.text_ok => returned = Ok(last_outcome.body))
       /\ (~last_outcome.text_ok
              => /\ returned.tag = "Err"
                 /\ returned.err.kind = ClientErrors.InvalidContent
                 /\ returned.err.details = Some(call.context))
       /\ (last_error.some => returned # Err(last_error.v))

\* A 2xx answer to the second attempt, the first having failed.
C4_Witness ==
    /\ pc = "done"
    /\ last_outcome.tag = "response"
    /\ is_success(last_outcome.status)
    /\ req_try = 2
    /\ last_error.some
    /\ returned.tag = "Ok"

\* C5 (as the specification states it): a call whose retry_number attempts
\* all failed with non-exempt statuses has slept retry_number - 1 times when
\* it returns: once between two attempts, not after the last.
C5_SleepPlacement ==
    (/\ pc = "done"
     /\ last_outcome.tag = "response"
     /\ returned.tag = "Err"
     /\ ~is_exempt(call.no_retry_on, returned.err)
     /\ failures = transport_calls
     /\ transport_calls = client.retry_number)
    => sleeps = client.retry_number - 1

\* C6 (as the specification states it): with retry_number 2, retry_delay 1,
\* no exemptions and 422 answered to every attempt, the call returns an error
\* of kind UNPROCESSABLE_ENTITY whose detail "try" is 1.
C6_ScenarioC ==
    (/\ pc = "done"
     /\ client.retry_number = 2
     /\ client.retry_delay = 1
     /\ ~call.no_retry_on.some
     /\ last_outcome.tag = "response"
     /\ statuses = {422})
    => /\ returned.tag = "Err"
       /\ returned.err.kind = HttpStatusCodeErrors.UNPROCESSABLE_ENTITY
       /\ returned.err.details.some
       /\ returned.err.details.v["try"] = ValueU64(1)

\* C6 (amended): with retry_number 2, retry_delay 1, no exemptions and 422
\* answered to every attempt, the call makes both attempts and returns an
\* error of kind UNPROCESSABLE_ENTITY whose detail "try" is 2, the attempt
\* that produced the returned error.
C6_ScenarioCAmended ==
    (/\ pc = "done"
     /\ client.retry_number = 2
     /\ client.retry_delay = 1
     /\ ~call.no_retry_on.some
     /\ last_outcome.tag = "response"
     /\ statuses = {422})
    => /\ transport_calls = 2
       /\ returned.tag = "Err"
       /\ returned.err.kind = HttpStatusCodeErrors.UNPROCESSABLE_ENTITY
       /\ returned.err.details.some
       /\ returned.err.details.v["try"] = ValueU64(2)

\* Scenario C has run to its end.
C6_Witness ==
    /\ pc = "done"
    /\ client.retry_number = 2
    /\ client.retry_delay = 1
    /\ ~call.no_retry_on.some
    /\ last_outcome.tag = "response"
    /\ statuses = {422}
    /\ transport_calls = 2
    /\ returned.tag = "Err"

\* C7: when the first attempt's non-success response classifies to a kind
\* listed in no_retry_on, the returned error has that kind, and its details
\* hold "try" as the unsigned integer 1, the url and the method of the
\* request.
C7_ScenarioD ==
    (/\ req_try = 1
     /\ last_outcome.tag = "response"
     /\ ~is_success(last_outcome.status)
     /\ call.no_retry_on.some
     /\ from_status(last_outcome.status) \in call.no_retry_on.v)
    => /\ returned.tag = "Err"
       /\ returned.err.kind \in call.no_retry_on.v
       /\ returned.err.kind.code = last_outcome.status
       /\ returned.err.details.some
       /\ {"try", "url", "method"} \subseteq DOMAIN returned.err.details.v
       /\ returned.err.details.v["try"] = [t |-> "U64", s |-> "", n |-> 1]
       /\ returned.err.details.v["url"] = ValueString(UrlToString(call.req.url))
       /\ returned.err.details.v["method"] = ValueString(MethodOf(call.api))

\* Scenario D: 422 exempt, answered to the first of 2 attempts.
C7_Witness ==
    /\ pc = "done"
    /\ req_try = 1
    /\ client.retry_number = 2
    /\ last_outcome.tag = "response"
    /\ last_outcome.status = 422
    /\ call.no_retry_on = Some({HttpStatusCodeErrors.UNPROCESSABLE_ENTITY})
    /\ returned.tag = "Err"
    /\ returned.err.kind = HttpStatusCodeErrors.UNPROCESSABLE_ENTITY

\* C8 (as the specification states it): every error do_request returns has
\* the url and the method in its details, and the attempt number too when
\* it was built from a response inside the loop.
C8_ErrorsCarryContext ==
    (pc = "done" /\ returned.tag = "Err")
    => /\ returned.err.details.some
       /\ {"url", "method"} \subseteq DOMAIN returned.err.details.v
       /\ (last_outcome.tag = "response" /\ ~is_success(last_outcome.status)
              => "try" \in DOMAIN returned.err.details.v)

\* C9: when a RestClient call other than head gets a 2xx response whose body
\* does not decode into R, the call is over with no transport call after
\* that response, and returns an error of a JSON kind, JsonDataError for
\* valid JSON of another shape: not a kind of the client or of a status.
C9_DecodeFailureNotRetried ==
    (/\ client.rest
     /\ call.api # "head"
     /\ last_outcome.tag = "response"
     /\ is_success(last_outcome.status)
     /\ last_outcome.text_ok
     /\ last_outcome.body # "valid_R")
    => /\ pc = "done"
       /\ transport_calls = req_try
       /\ returned = Ok(last_outcome.body)
       /\ result.tag = "Err"
       /\ result.err.kind \in { JsonErrors[e] : e \in DOMAIN JsonErrors }
       /\ result.err.kind \notin { ClientErrors[e] : e \in DOMAIN ClientErrors }
       /\ result.err.kind \notin
              { HttpStatusCodeErrors[e] : e \in DOMAIN HttpStatusCodeErrors }
       /\ (last_outcome.body = "valid_not_R"
              => result.err.kind = JsonErrors.JsonDataError)

\* Valid JSON of another shape answered to the first of RestClient's 10
\* attempts.
C9_Witness ==
    /\ pc = "done"
    /\ client.rest
    /\ call.api = "get"
    /\ client.retry_number = DefaultRetryNumber
    /\ last_outcome.tag = "response"
    /\ last_outcome.body = "valid_not_R"
    /\ transport_calls = 1
    /\ result.tag = "Err"

\* C10: every client new and the builder mutators yield has
\* retry_number >= 1: new sets 10, and set_retry_number(0) panics and leaves
\* no client.
C10_RetryNumberPositive ==
    /\ \A rest \in BOOLEAN, url_root \in Roots :
          new(rest, url_root).ok => new(rest, url_root).client.retry_number = 10
    /\ (phase = "ready"
           => /\ client.retry_number >= 1
              /\ set_retry_number(client, 0).phase = "panicked"
              /\ set_retry_number(client, 0).client = NoClient)
    /\ (phase = "panicked" => client = NoClient)
    /\ (client = NoClient => phase # "ready")

\* A client whose mutators all have been called, set_retry_number with 1.
C10_Witness ==
    /\ phase = "ready"
    /\ client.retry_number = 1
    /\ client.retry_delay = 1
    /\ client.timeout = 5
    /\ ~client.ssl_verify
    /\ client.auth.some

\* C11: on a client whose root URL cannot take path segments, do_request is
\* over as soon as it is called, with Err of kind InvalidUrl: no context
\* seeded, no transport client and no request built (whether or not building
\* the transport client would have succeeded), no transport call, no sleep.
C11_UrlBuildFailFast ==
    (/\ phase = "ready"
     /\ pc # "idle"
     /\ client.url_root.cannot_be_a_base
     /\ ~(pc = "done" /\ returned = NoResult))
    => /\ pc = "done"
       /\ returned.tag = "Err"
       /\ returned.err.kind = ClientErrors.InvalidUrl
       /\ result = returned
       /\ call.context = ContextNew
       /\ call.req = NoRequest
       /\ last_outcome.tag = "none"
       /\ transport_calls = 0
       /\ sleeps = 0

\* A post on a client built on "mailto:ops" has returned.
C11_Witness ==
    /\ pc = "done"
    /\ client.url_root.cannot_be_a_base
    /\ call.api = "post"
    /\ returned.tag = "Err"
    /\ returned.err.kind = ClientErrors.InvalidUrl
    /\ transport_calls = 0

\* C12 (as the specification states it): a transport failure with no status
\* that is no builder, body, decode, connect or timeout error is classified
\* as RequestError when it is a request error, and as UnexpectedError when
\* it is of no category at all.
C12_RequestErrorKind ==
    (/\ fn = "http_error_serialize"
     /\ input.error.status = 0
     /\ ~input.error.is_builder
     /\ ~input.error.is_body
     /\ ~input.error.is_decode
     /\ ~input.error.is_connect
     /\ ~input.error.is_timeout)
    => /\ ~output.panic
       /\ (input.error.is_request
              => output.err.kind = ClientErrors.RequestError)
       /\ (~input.error.is_request
              => output.err.kind = ClientErrors.UnexpectedError)

\* C13: http_error_serialize answers the kind of the first rule that
\* matches, in this order: a status gives the kind of that status; a builder
\* error ClientBuilderError; a body or decode error InvalidContent; a connect
\* or timeout error NetworkError, whatever other flags the failure has.  The
\* message is the failure's text and the details the context handed in.
C13_ClassificationTable ==
    fn = "http_error_serialize"
    => /\ ~output.panic
       /\ output.err.message = input.error.display
       /\ output.err.details =
              Some(IF input.context.some THEN input.context.v ELSE <<>>)
       /\ (input.error.status # 0
              => output.err.kind.code = input.error.status)
       /\ (input.error.status = 0 /\ input.error.is_builder
              => output.err.kind = ClientErrors.ClientBuilderError)
       /\ ((/\ input.error.status = 0
            /\ ~input.error.is_builder
            /\ (input.error.is_body \/ input.error.is_decode))
              => output.err.kind = ClientErrors.InvalidContent)
       /\ ((/\ input.error.status = 0
            /\ ~input.error.is_builder
            /\ ~input.error.is_body
            /\ ~input.error.is_decode
            /\ (input.error.is_connect \/ input.error.is_timeout))
              => output.err.kind = ClientErrors.NetworkError)

\* A failure that is a builder, a decode and a connect error at once has
\* been classified by the first of the three rules.
C13_Witness ==
    /\ fn = "http_error_serialize"
    /\ input.error.status = 0
    /\ input.error.is_builder
    /\ input.error.is_decode
    /\ input.error.is_connect
    /\ output.err.kind = ClientErrors.ClientBuilderError

\* C14 (as the specification states it): the identifiers of the kinds are
\* pairwise distinct, and for every status from 300 on that has a kind
\* constant of its code, from_status returns the kind of that code.
C14_StatusMappingExhaustive ==
    /\ \A a \in DOMAIN HttpStatusCodeErrors, b \in DOMAIN HttpStatusCodeErrors :
          HttpStatusCodeErrors[a].msgid = HttpStatusCodeErrors[b].msgid => a = b
    /\ ((/\ fn = "from_status"
         /\ input.status >= 300
         /\ \E k \in DOMAIN HttpStatusCodeErrors :
               HttpStatusCodeErrors[k].code = input.status)
           => output.code = input.status)

\* C15: json_error_serialize maps each category to its own kind: Io to
\* JsonIOError, Syntax to JsonSyntaxError, Data to JsonDataError, Eof to
\* JsonEOF; the details of the error are the context handed in, and the
\* empty context when none is.
C15_JsonClassification ==
    fn = "json_error_serialize"
    => /\ (input.category = "Io" => output.kind = JsonKinds.IOError)
       /\ (input.category = "Syntax" => output.kind = JsonKinds.SyntaxError)
       /\ (input.category = "Data" => output.kind = JsonKinds.DataError)
       /\ (input.category = "Eof" => output.kind = JsonKinds.EOF)
       /\ output.kind \in { JsonKinds[k] : k \in DOMAIN JsonKinds }
       /\ Cardinality({ JsonKinds[k].msgid : k \in DOMAIN JsonKinds }) = 4
       /\ (input.context.some => output.details = Some(input.context.v))
       /\ (~input.context.some => output.details = Some(<<>>))

\* A truncated input classified with no context handed in.
C15_Witness ==
    /\ fn = "json_error_serialize"
    /\ input.category = "Eof"
    /\ ~input.context.some
    /\ output.kind = JsonKinds.EOF
    /\ output.details = Some(<<>>)

\* C16 (as the specification states it): when the loop is over with no error
\* recorded, do_request returns an error of kind UNKNOWN_ERROR whose details
\* are the context of the call.
C16_NoErrorRecorded ==
    (fn = "loop_exit" /\ ~input.last.some)
    => /\ output.tag = "Err"
       /\ output.err.kind = ClientKinds.UNKNOWN_ERROR
       /\ output.err.details = Some(input.context)

\* C17: when try_clone gives no request at attempt k, do_request is over at
\* once with an error of the generic client kind: the k-1 transport calls and
\* k-1 sleeps of the earlier attempts and none more, and as details the
\* context of the call: the url, the method and the caller's own fields
\* (those under other keys than url and method, which do_request sets).
C17_CloneFailureFatal ==
    last_outcome.tag = "no_clone"
    => /\ pc = "done"
       /\ returned.tag = "Err"
       /\ returned.err.kind = ClientKinds.GENERIC_HTTP_CLIENT_ERROR
       /\ result = returned
       /\ transport_calls = req_try - 1
       /\ sleeps = req_try - 1
       /\ returned.err.details.some
       /\ {"url", "method"} \subseteq DOMAIN returned.err.details.v
       /\ returned.err.details.v["url"] = ValueString(UrlToString(call.req.url))
       /\ returned.err.details.v["method"] = ValueString(MethodOf(call.api))
       /\ (call.caller_context.some
              => \A k \in (DOMAIN call.caller_context.v) \ {"url", "method"} :
                    /\ k \in DOMAIN returned.err.details.v
                    /\ returned.err.details.v[k] = call.caller_context.v[k])
       /\ returned.err.details.v = call.context

\* The request could not be cloned for the second attempt of a call that
\* was handed a context.
C17_Witness ==
    /\ pc = "done"
    /\ last_outcome.tag = "no_clone"
    /\ req_try = 2
    /\ transport_calls = 1
    /\ call.caller_context.some
    /\ returned.tag = "Err"
    /\ "request_id" \in DOMAIN returned.err.details.v

\* C18: with callers sharing one client, their calls interleaved in every
\* way, the client stays the one that was built, and between two steps of
\* its loop the locals of each call (attempt counter, last error, context,
\* transport calls, sleeps, result) are those of the same call run alone
\* against the answers this caller's attempts received.
C18_NoSharedRetryState ==
    /\ phase = "ready"
          => \E url_root \in Roots, setup \in SharedSetups :
                /\ new(FALSE, url_root).ok
                /\ client = apply_setup(new(FALSE, url_root).client, setup).client
    /\ \A i \in CallIds :
          /\ (calls[i].asked = NoAsked => calls[i].locals = NoLocals)
          /\ (calls[i].asked # NoAsked /\ calls[i].locals.pc # "sleep"
                 => calls[i].locals =
                        run_alone(client,
                                  start_locals(client, calls[i].asked.api,
                                               calls[i].asked.path,
                                               calls[i].asked.no_retry_on,
                                               calls[i].asked.context),
                                  calls[i].answers))

\* Both calls are under way on a client of 2 attempts: one caller sleeps
\* after its first failure while the other, having failed and slept, is at
\* its second attempt with its own error kept.
C18_Witness ==
    /\ client.retry_number = 2
    /\ calls["caller_1"].locals.pc = "sleep"
    /\ calls["caller_1"].locals.req_try = 1
    /\ calls["caller_1"].locals.last_error.some
    /\ calls["caller_2"].locals.pc = "send"
    /\ calls["caller_2"].locals.req_try = 2
    /\ calls["caller_2"].locals.last_error.some
    /\ calls["caller_1"].locals.last_error # calls["caller_2"].locals.last_error

\* C19: merge_headers(base, override) has the keys of both; every key of
\* override has override's value, every key of base alone keeps base's
\* value, and with no override the result is base.  (base is borrowed and
\* cloned: input.h1 is the base as it still is after the call.)
C19_HeaderOverride ==
    fn = "merge_headers"
    => /\ DOMAIN output =
              (DOMAIN input.h1)
              \cup (IF input.h2.some THEN DOMAIN input.h2.v ELSE {})
       /\ (input.h2.some
              => \A n \in DOMAIN input.h2.v : output[n] = input.h2.v[n])
       /\ \A n \in DOMAIN input.h1 :
              (~input.h2.some \/ n \notin DOMAIN input.h2.v)
                 => output[n] = input.h1[n]
       /\ (~input.h2.some => output = input.h1)

\* The doc example, with one more header in the base: content-type
\* text/plain overridden by application/json, accept kept.
C19_Witness ==
    /\ fn = "merge_headers"
    /\ input.h2.some
    /\ DOMAIN input.h1 = {"accept", "content-type"}
    /\ DOMAIN input.h2.v = {"content-type"}
    /\ input.h1["content-type"] = "text/plain"
    /\ input.h2.v["content-type"] = "application/json"
    /\ output["content-type"] = "application/json"
    /\ output["accept"] = input.h1["accept"]

\* C20: build_url appends the pairs of params sorted by key after the
\* query of the root, so that the same pairs handed over in any other order
\* give the same URL; page=1 and limit=10 on a root with no query give the
\* query string limit=10&page=1.
C20_QueryOrdering ==
    (fn = "build_url" /\ input.params.some /\ ~input.root.cannot_be_a_base)
    => /\ output.ok
       /\ \A q \in ParamOrders :
              { q[i] : i \in DOMAIN q } = { input.params.v[i] : i \in DOMAIN input.params.v }
                 => build_url(input.root, input.path, Some(q)) = output
       /\ Len(output.url.query) = Len(input.root.query) + Len(input.params.v)
       /\ SubSeq(output.url.query, 1, Len(input.root.query)) = input.root.query
       /\ { output.url.query[i] : i \in (Len(input.root.query) + 1)..Len(output.url.query) }
              = { input.params.v[i] : i \in DOMAIN input.params.v }
       /\ \A i \in DOMAIN output.url.query, j \in DOMAIN output.url.query :
              (Len(input.root.query) < i /\ i < j)
                 => <<output.url.query[i][1], output.url.query[j][1]>>
                       \in { <<"limit", "page">>, <<"limit", "sort">>, <<"page", "sort">> }
       /\ ((/\ input.root.query = <<>>
            /\ { input.params.v[i] : i \in DOMAIN input.params.v }
                  = { <<"page", "1">>, <<"limit", "10">> })
              => QueryString(output.url.query) = "limit=10&page=1")

\* page=1 handed over before limit=10.
C20_Witness ==
    /\ fn = "build_url"
    /\ input.params = Some(<< <<"page", "1">>, <<"limit", "10">> >>)
    /\ input.root.query = <<>>
    /\ output.ok
    /\ QueryString(output.url.query) = "limit=10&page=1"
\* C21: build_url appends to the path of the root the parts of path that
\* are left once it is split on "/" and the empty parts (before a leading
\* slash, after a trailing one, between doubled ones) are dropped, in their
\* order; scheme, host and query of the root are kept, and a path of slashes
\* only or of nothing leaves the path of the root.  (root is borrowed and
\* cloned: input.root is the root as it still is after the call.  The paths
\* have no "." or ".." part.)
C21_PathSegments ==
    (fn = "build_url" /\ ~input.root.cannot_be_a_base)
    => /\ output.ok
       /\ output.url.base = input.root.base
       /\ output.url.path =
              input.root.path \o SelectSeq(input.path, LAMBDA part : part # "/")
       /\ \A i \in DOMAIN output.url.path : output.url.path[i] # ""
       /\ SubSeq(output.url.query, 1, Len(input.root.query)) = input.root.query
       /\ ((\A i \in DOMAIN input.path : input.path[i] = "/")
              => output.url.path = input.root.path)

\* "/users//search/" appended to a root whose path is "/v1".
C21_Witness ==
    /\ fn = "build_url"
    /\ input.root.path = <<"v1">>
    /\ input.path = <<"/", "users", "/", "/", "search", "/">>
    /\ output.ok
    /\ output.url.path = <<"v1", "users", "search">>
    /\ UrlToString(output.url) = "https://api.example.com/v1/users/search?token=t"
\* C22: as_header of a BasicAuth always gives a header, with or without a
\* password: its name is authorization and its value "Basic " followed by
\* the base64 encoding of username, ":" and the password, the password
\* being the empty text when there is none; john.doe with no password gives
\* the encoding of "john.doe:".
C22_BasicAuthHeader ==
    (fn = "as_header" /\ input.auth.scheme = "BasicAuth")
    => /\ output.some
       /\ output.v[1] = "authorization"
       /\ output.v[2] =
              "Basic " \o BASE64_STANDARD_encode(
                  input.auth.username \o ":"
                  \o (IF input.auth.password.some THEN input.auth.password.v ELSE ""))
       /\ ((input.auth.username = "john.doe" /\ ~input.auth.password.some)
              => output.v[2] = "Basic " \o BASE64_STANDARD_encode("john.doe:"))

\* john.doe with no password.
C22_Witness ==
    /\ fn = "as_header"
    /\ input.auth = Auth("BasicAuth", "john.doe", None(""))
    /\ output = Some(<<"authorization", "Basic base64(john.doe:)">>)
\* C23: the request do_request builds has an authentication header exactly
\* when the client has an authentication whose as_header yields one, and
\* then it is that header: a client with no authentication set, with NoAuth
\* or with an implementation returning None sends its attempts without one,
\* a client with a BasicAuth sends them with the Basic header.
C23_AuthHeaderAttached ==
    (phase = "ready" /\ call.req # NoRequest)
    => /\ (call.req.auth_header.some
              <=> (client.auth.some /\ client.auth.v.scheme = "BasicAuth"))
       /\ (~client.auth.some => ~call.req.auth_header.some)
       /\ ((client.auth.some /\ client.auth.v.scheme \in {"NoAuth", "Custom"})
              => ~call.req.auth_header.some)
       /\ (call.req.auth_header.some
              => /\ call.req.auth_header.v[1] = "authorization"
                 /\ call.req.auth_header = as_header(client.auth.v))

\* An attempt has been sent for a client with BasicAuth john.doe and
\* password.
C23_Witness ==
    /\ transport_calls = 1
    /\ client.auth = Some(Auth("BasicAuth", "john.doe", Some("secret123")))
    /\ call.req.auth_header =
           Some(<<"authorization", "Basic base64(john.doe:secret123)">>)
\* C24: the step that builds the transport client and the request of a call
\* gives them the timeout override of the call when there is one and the
\* timeout of the client otherwise, and the headers
\* merge_headers(client headers, header overrides of the call); that step
\* and every later step of the call leave the client, its timeout included,
\* and the request as they are.
C24_EffectiveTimeout ==
    [][/\ ((pc = "idle" /\ call'.req # NoRequest)
              => /\ (call'.timeout.some => call'.req.timeout = call'.timeout.v)
                 /\ (~call'.timeout.some => call'.req.timeout = client.timeout)
                 /\ call'.req.headers = merge_headers(client.headers, call'.headers)
                 /\ client' = client)
       /\ (pc # "idle" => client' = client /\ call' = call)]_vars

\* An attempt has been sent with a timeout of 5 s and accept: text/plain for
\* a RestClient configured with 10 s and accept: application/json.
C24_Witness ==
    /\ transport_calls = 1
    /\ client.rest
    /\ client.timeout = DefaultTimeout
    /\ call.timeout = Some(5)
    /\ call.req.timeout = 5
    /\ client.headers["accept"] = "application/json"
    /\ call.headers = Some([accept |-> "text/plain"])
    /\ call.req.headers["accept"] = "text/plain"
    /\ call.req.headers["user-agent"] = client.headers["user-agent"]
\* C25: new on a text that parses as a URL once its trailing slashes are
\* trimmed gives a client whose url_root is the URL of the trimmed text,
\* with timeout 10, retry_number 10, retry_delay 30, ssl_verify true, no
\* authentication and headers holding user-agent (RestClient: content-type
\* and accept too); on a text that does not parse it gives an error of kind
\* InvalidUrl and no client.
C25_ConstructionDefaults ==
    fn = "new"
    => \E n \in 0..Len(input.url_root) :
          /\ n > 0 => input.url_root[n] # "/"
          /\ \A i \in (n + 1)..Len(input.url_root) : input.url_root[i] = "/"
          /\ (UrlParse(SubSeq(input.url_root, 1, n)).some
                 => /\ output.ok
                    /\ output.client.rest = input.rest
                    /\ output.client.url_root = UrlParse(SubSeq(input.url_root, 1, n)).v
                    /\ \A i \in DOMAIN output.client.url_root.path :
                          output.client.url_root.path[i] # ""
                    /\ output.client.timeout = 10
                    /\ output.client.retry_number = 10
                    /\ output.client.retry_delay = 30
                    /\ output.client.ssl_verify
                    /\ ~output.client.auth.some
                    /\ "user-agent" \in DOMAIN output.client.headers
                    /\ DOMAIN output.client.headers =
                           IF input.rest THEN {"user-agent", "content-type", "accept"}
                           ELSE {"user-agent"})
          /\ (~UrlParse(SubSeq(input.url_root, 1, n)).some
                 => /\ ~output.ok
                    /\ output.client = NoClient
                    /\ output.err.kind = ClientErrors.InvalidUrl)

\* An HttpClient made from "https://api.example.com/v1//".
C25_Witness ==
    /\ fn = "new"
    /\ ~input.rest
    /\ input.url_root = <<"https://api.example.com", "/", "v1", "/", "/">>
    /\ output.ok
    /\ UrlToString(output.client.url_root) = "https://api.example.com/v1"
    /\ output.client.timeout = DefaultTimeout
    /\ output.client.retry_number = DefaultRetryNumber
    /\ output.client.retry_delay = DefaultRetryDelay
\* C26: a builder step that changes the headers of the client is a
\* set_headers(h) that merged: the headers after it are the names of h with
\* the values of h and the names the client had outside of h with the
\* values they had (user-agent among them unless h holds it), and the step
\* changes no other field of the client.
C26_SetHeadersMerges ==
    [][(phase = "ready" /\ phase' = "ready" /\ client'.headers # client.headers)
          => /\ \E h \in BuilderHeaderSets :
                   /\ DOMAIN client'.headers = (DOMAIN client.headers) \cup (DOMAIN h)
                   /\ \A n \in DOMAIN h : client'.headers[n] = h[n]
                   /\ \A n \in (DOMAIN client.headers) \ (DOMAIN h) :
                         client'.headers[n] = client.headers[n]
                   /\ ("user-agent" \notin DOMAIN h
                          => client'.headers["user-agent"] = client.headers["user-agent"])
             /\ client' = [client EXCEPT !.headers = client'.headers]]_vars

\* A RestClient after set_timeout(5) and set_headers of accept: text/plain:
\* accept overridden, user-agent and content-type as new set them.
C26_Witness ==
    /\ phase = "ready"
    /\ client.rest
    /\ client.timeout = 5
    /\ client.headers =
           [n \in {"user-agent", "content-type", "accept"} |->
               CASE n = "user-agent" -> UserAgent
                 [] n = "content-type" -> "application/json"
                 [] n = "accept" -> "text/plain"]
\* C27: when a RestClient call is over with an error of a JSON kind (the
\* data did not serialize, or the body of the 2xx response did not decode),
\* the details of the error are the context the caller gave when there is
\* one, with no url, method or try added, and otherwise the context of
\* exactly server (the root URL), path (as given) and method.
C27_DecoderContext ==
    (/\ pc = "done"
     /\ client.rest
     /\ result.tag = "Err"
     /\ result.err.kind \in { JsonKinds[k] : k \in DOMAIN JsonKinds })
    => /\ result.err.details.some
       /\ (call.caller_context.some
              => result.err.details.v = call.caller_context.v)
       /\ (~call.caller_context.some
              => /\ DOMAIN result.err.details.v = {"server", "path", "method"}
                 /\ result.err.details.v["server"] =
                        ValueString(UrlToString(client.url_root))
                 /\ result.err.details.v["path"] = ValueString(Join(call.path, ""))
                 /\ result.err.details.v["method"] = ValueString(MethodOf(call.api)))

\* A get with no context whose 2xx body is JSON of another shape.
C27_Witness ==
    /\ pc = "done"
    /\ client.rest
    /\ call.api = "get"
    /\ ~call.caller_context.some
    /\ last_outcome.body = "valid_not_R"
    /\ result.tag = "Err"
    /\ result.err.kind = JsonKinds.DataError
    /\ result.err.details =
           Some([k \in {"server", "path", "method"} |->
                    CASE k = "server" -> ValueString("https://api.example.com/")
                      [] k = "path" -> ValueString("/users//search/")
                      [] k = "method" -> ValueString("GET")])
\* C28: a RestClient post or put serializes its data before do_request is
\* called.  Data that does not serialize ends the call with an error of a
\* JSON kind: do_request has not run (no context, no request, no result of
\* its own), no transport call, no sleep.  Data that serializes is the body
\* of the request as its JSON text, and with no data the request has no
\* body.
C28_SerializeBeforeSend ==
    (/\ phase = "ready"
     /\ pc # "idle"
     /\ client.rest
     /\ call.api \in {"post", "put"})
    => /\ ((call.data.some /\ ~serde_to_string(call.data.v).ok)
              => /\ pc = "done"
                 /\ result.tag = "Err"
                 /\ result.err.kind \in { JsonKinds[k] : k \in DOMAIN JsonKinds }
                 /\ returned = NoResult
                 /\ call.context = ContextNew
                 /\ call.req = NoRequest
                 /\ last_outcome.tag = "none"
                 /\ transport_calls = 0
                 /\ sleeps = 0)
       /\ ((call.data.some /\ serde_to_string(call.data.v).ok /\ call.req # NoRequest)
              => call.req.body = Some("json(" \o call.data.v \o ")"))
       /\ ((~call.data.some /\ call.req # NoRequest) => ~call.req.body.some)

\* A put whose data does not serialize has returned.
C28_Witness ==
    /\ pc = "done"
    /\ client.rest
    /\ call.api = "put"
    /\ call.data = Some("d_bad")
    /\ result.tag = "Err"
    /\ result.err.kind = JsonKinds.DataError
    /\ transport_calls = 0
\* C29: an error built from the non-success response of attempt k has the
\* detail "try" equal to k, as an unsigned integer: the error kept while the
\* call sleeps after attempt k and while attempt k + 1 is under way, the
\* error of an exempt kind returned at attempt k, and the error returned
\* once the retry_number attempts are used up, whose "try" is retry_number.
\* The context of the call holds the caller's fields, url and method, and
\* at no time "try".
C29_AttemptDetail ==
    /\ "try" \notin DOMAIN call.context
    /\ (call.req # NoRequest
           => DOMAIN call.context =
                  {"url", "method"}
                  \cup (IF call.caller_context.some
                        THEN DOMAIN call.caller_context.v ELSE {}))
    /\ (pc = "sleep"
           => /\ last_error.some
              /\ last_error.v.details.some
              /\ last_error.v.details.v["try"] = ValueU64(req_try))
    /\ ((pc = "send" /\ req_try > 1)
           => /\ last_error.some
              /\ last_error.v.details.v["try"] = ValueU64(req_try - 1))
    /\ ((/\ pc = "done"
         /\ last_outcome.tag = "response"
         /\ ~is_success(last_outcome.status)
         /\ returned.tag = "Err")
           => /\ returned.err.details.some
              /\ returned.err.details.v["try"] = ValueU64(req_try)
              /\ transport_calls = req_try
              /\ (sleeps = client.retry_number
                     => returned.err.details.v["try"] = ValueU64(client.retry_number)))

\* The second of 2 attempts has failed like the first, with 404, and the
\* call has returned the error of the second.
C29_Witness ==
    /\ pc = "done"
    /\ client.retry_number = 2
    /\ ~call.no_retry_on.some
    /\ statuses = {404}
    /\ transport_calls = 2
    /\ sleeps = 2
    /\ returned.tag = "Err"
    /\ returned.err.details.v["try"] = ValueU64(2)
    /\ "try" \notin DOMAIN call.context
\* C30: when attempt k > 1 is answered by a non-success response whose kind
\* is listed in no_retry_on, the k - 1 attempts before it having failed with
\* kinds that are not, do_request is over: k transport calls, k - 1 sleeps,
\* and Err with the error of attempt k, its kind that of the response of
\* attempt k and its "try" k, not the error kept from attempt k - 1.
C30_ExemptionAtLaterAttempt ==
    (/\ req_try > 1
     /\ last_outcome.tag = "response"
     /\ ~is_success(last_outcome.status)
     /\ call.no_retry_on.some
     /\ \E kind \in call.no_retry_on.v : kind.code = last_outcome.status)
    => /\ pc = "done"
       /\ req_try <= client.retry_number
       /\ transport_calls = req_try
       /\ failures = req_try
       /\ sleeps = req_try - 1
       /\ returned.tag = "Err"
       /\ returned.err.kind \in call.no_retry_on.v
       /\ returned.err.kind.code = last_outcome.status
       /\ returned.err.details = Some(ContextInsert(call.context, "try", ValueU64(req_try)))
       /\ last_error.some
       /\ last_error.v.kind \notin call.no_retry_on.v
       /\ last_error.v.details.v["try"] = ValueU64(req_try - 1)
       /\ returned.err # last_error.v

\* 404 answered twice, then the exempt 422 at the third of 10 attempts.
C30_Witness ==
    /\ pc = "done"
    /\ client.retry_number = DefaultRetryNumber
    /\ call.no_retry_on = Some({HttpStatusCodeErrors.UNPROCESSABLE_ENTITY})
    /\ statuses = {404, 422}
    /\ last_outcome.status = 422
    /\ req_try = 3
    /\ transport_calls = 3
    /\ sleeps = 2
    /\ returned.tag = "Err"
    /\ returned.err.kind = HttpStatusCodeErrors.UNPROCESSABLE_ENTITY
    /\ returned.err.details.v["try"] = ValueU64(3)
\* C31 (as the specification states it): with every transport call and every
\* sleep returning, a call that has entered the loop of do_request reaches
\* its end with Ok or Err returned and at most retry_number transport calls
\* issued, whatever the transport answers.
C31_Termination ==
    (pc \in {"send", "sleep"})
        ~> (/\ pc = "done"
            /\ returned.tag \in {"Ok", "Err"}
            /\ transport_calls <= client.retry_number)
\* C32: the attempts of a call come one after the other.  A step issues at
\* most one transport call, that of the attempt req_try, and the calls
\* issued before it are those of the attempts 1 to req_try - 1, each
\* followed by its sleep.  The attempt number goes up by one at a time, and
\* only in the step that ends the sleep after an attempt answered by a
\* non-success response of a kind that is not exempt.
C32_SequentialAttempts ==
    [][/\ (transport_calls' # transport_calls
              => /\ pc = "send"
                 /\ transport_calls' = transport_calls + 1
                 /\ transport_calls' = req_try
                 /\ req_try' = req_try
                 /\ sleeps' = sleeps
                 /\ sleeps = req_try - 1)
       /\ ((pc # "idle" /\ req_try' # req_try)
              => /\ pc = "sleep"
                 /\ pc' = "send"
                 /\ req_try' = req_try + 1
                 /\ req_try' <= client.retry_number
                 /\ sleeps' = sleeps + 1
                 /\ sleeps' = req_try
                 /\ transport_calls' = transport_calls
                 /\ transport_calls = req_try
                 /\ last_outcome.tag = "response"
                 /\ ~is_success(last_outcome.status)
                 /\ ~(/\ call.no_retry_on.some
                      /\ \E kind \in call.no_retry_on.v :
                            kind.code = last_outcome.status))
       /\ ((pc = "idle" /\ pc' # "idle") => req_try' = 1 /\ transport_calls' = 0)]_vars

\* The third attempt is about to be sent: two transport calls answered, two
\* sleeps over.
C32_Witness ==
    /\ pc = "send"
    /\ req_try = 3
    /\ transport_calls = 2
    /\ sleeps = 2
    /\ failures = 2
    /\ call.no_retry_on.some
\* C33: the request of a call is built once, before the loop: url, method,
\* merged headers, authentication header, body and timeout.  Every attempt
\* hands the transport a copy of that request, whatever the earlier
\* attempts were answered, and no step of the loop changes it.
C33_SameRequestEveryAttempt ==
    [][/\ (transport_calls' # transport_calls
              => /\ requests_sent' = {call.req}
                 /\ call.req.method = MethodOf(call.api)
                 /\ call.req.headers = merge_headers(client.headers, call.headers)
                 /\ call.req.auth_header = auth_header(client.auth)
                 /\ call.req.timeout = effective_timeout(call.timeout, client.timeout)
                 /\ ~call.req.url.cannot_be_a_base)
       /\ (pc # "idle" => call'.req = call.req)
       /\ (transport_calls' = transport_calls => requests_sent' = requests_sent)]_vars

\* Three attempts of a put with a body, header overrides and a timeout
\* override have been sent, the first two answered by 404 and 422: one
\* request in all.
C33_Witness ==
    /\ transport_calls = 3
    /\ statuses = {404, 422}
    /\ call.api = "put"
    /\ call.req.body.some
    /\ call.headers.some
    /\ call.timeout.some
    /\ requests_sent = {call.req}
C35_FallbackUnreachable ==
    /\ (phase = "ready" => client.retry_number >= 1)
    /\ (phase = "ready" => set_retry_number(client, 0) = Built("panicked", NoClient))
    /\ (phase = "panicked" => client = NoClient /\ pc = "idle")
    /\ ((pc = "done" /\ call.req # NoRequest /\ sleeps = client.retry_number)
           => /\ transport_calls = client.retry_number
              /\ req_try = client.retry_number
              /\ last_error.some
              /\ last_error.v.details.v["try"] = ValueU64(client.retry_number)
              /\ last_error.v.kind.code = last_outcome.status
              /\ returned = Err(last_error.v)
              /\ returned # loop_exit(None(NoError), call.context))
    /\ ((pc = "done" /\ returned = loop_exit(None(NoError), call.context))
           => last_outcome.tag = "no_clone")

\* The only attempt of a client built with set_retry_number(1) has failed
\* and the loop is over.
C35_Witness ==
    /\ pc = "done"
    /\ client.retry_number = 1
    /\ transport_calls = 1
    /\ sleeps = 1
    /\ last_error.some
    /\ returned = Err(last_error.v)
\* C36: the context of a call holds under url the URL do_request built and
\* under method the method of the request, also when the context of the
\* caller came with these keys; the other fields of the caller are kept as
\* they were.  The errors that carry the context (of a non-success response,
\* of a body that cannot be read, of a request that cannot be cloned) have
\* those values in their details.
C36_ExecutorKeysWin ==
    call.req # NoRequest
    => /\ call.context["url"] = ValueString(UrlToString(call.req.url))
       /\ call.context["method"] = ValueString(MethodOf(call.api))
       /\ (call.caller_context.some
              => \A k \in (DOMAIN call.caller_context.v) \ {"url", "method"} :
                    /\ k \in DOMAIN call.context
                    /\ call.context[k] = call.caller_context.v[k])
       /\ ((/\ pc = "done"
            /\ returned.tag = "Err"
            /\ last_outcome.tag \in {"response", "no_clone"})
              => /\ returned.err.details.some
                 /\ \A k \in DOMAIN call.context :
                       /\ k \in DOMAIN returned.err.details.v
                       /\ returned.err.details.v[k] = call.context[k])

\* A get handed a context with url, method and request_id has returned the
\* error of a 404.
C36_Witness ==
    /\ pc = "done"
    /\ call.api = "get"
    /\ call.caller_context.some
    /\ call.caller_context.v["url"] = ValueString("caller-url")
    /\ call.caller_context.v["method"] = ValueString("caller-method")
    /\ last_outcome.status = 404
    /\ returned.tag = "Err"
    /\ returned.err.details.v["url"] =
           ValueString("https://api.example.com/users/search")
    /\ returned.err.details.v["method"] = ValueString("GET")
    /\ returned.err.details.v["request_id"] = ValueString("r-1")
\* C37: classifying a response whose status is not a success does not
\* abort the call: whatever that status is, do_request does not panic, and
\* once the call is over it has returned an error.
C37_ClassifyingNeverPanics ==
    (/\ last_outcome.tag = "response"
     /\ ~is_success(last_outcome.status))
        => /\ returned.tag # "Panic"
           /\ (pc = "done" => returned.tag = "Err")
\* C38: from_msgid gives back every constant of HttpStatusCodeErrors from
\* its msgid, with the same code, msgid and message; a msgid that no
\* constant has gives the default of the registry.
C38_RegistryRoundTrip ==
    fn = "from_msgid"
    => /\ \A k \in DOMAIN HttpStatusCodeErrors :
             HttpStatusCodeErrors[k].msgid = input.msgid
             => /\ output = HttpStatusCodeErrors[k]
                /\ output.code = HttpStatusCodeErrors[k].code
                /\ output.msgid = input.msgid
                /\ output.message = HttpStatusCodeErrors[k].message
       /\ ((\A k \in DOMAIN HttpStatusCodeErrors :
               HttpStatusCodeErrors[k].msgid # input.msgid)
              => output = RegistryDefault)

\* The msgid of INVALID_URL, whose code BAD_REQUEST has too, has given
\* INVALID_URL back.
C38_Witness ==
    /\ fn = "from_msgid"
    /\ input.msgid = "Err-27071"
    /\ output = ErrorType(400, "Err-27071", "Invalid url")
    /\ output # HttpStatusCodeErrors.BAD_REQUEST

====
